---- MODULE Spec2Model ----
(***************************************************************************)
(* Session store, refresh-token store (rotation + reuse detection) and     *)
(* OAuth state cookie of the angple web application, with the handlers     *)
(* built on them: OAuth start and callback, register action, password      *)
(* login, logout and the request hook (authentication and CSRF check),     *)
(* the provider adapters and the cache of the OAuth keys.                  *)
(*                                                                         *)
(* Time is counted in whole clock units (the resolution of the DATETIME    *)
(* columns and of the JWT iat/exp claims); the durations of the session    *)
(* store and of the refresh tokens are scaled down, keeping their order    *)
(* and their ratios. The OAuth state machine counts time in seconds and    *)
(* keeps the program's 600 seconds.                                        *)
(* Random 256-bit values (family ids, session ids, CSRF tokens, OAuth      *)
(* states) are modelled as fresh values drawn from a counter.              *)
(* SHA-256 is modelled as an injective tagging of its input.               *)
(***************************************************************************)
EXTENDS Integers, Sequences, FiniteSets, TLC

VARIABLES
    now,            \* the wall clock (Date.now(), NOW())
    refreshTokens,  \* table angple_refresh_tokens: a set of rows
    nextTokenId,    \* AUTO_INCREMENT counter of angple_refresh_tokens
    nextFamily,     \* number of family ids generateFamilyId has produced
    issued,         \* history: issued[k] = the token of row k, where it came from
    sessions,       \* table angple_sessions: a set of rows
    nextSession,    \* number of sessions createSession has created
    created,        \* history: created[k] = what the k-th createSession returned
    cookieJar,      \* the browser's oauth_state cookie
    nextState,      \* number of states generateRandomState has produced
    consumed,       \* history: the states a validateOAuthState call accepted
    browser,        \* the browser's other cookies: a set of [name, domain, value]
    cookieDomain,   \* process.env.COOKIE_DOMAIN ("" when it is not set)
    served,         \* history: number of login-flow requests answered
    calls,          \* the calls in progress that other calls may interleave
    reuseDetected,  \* history: the families reuse detection has revoked
    cachedKeys,     \* provider-registry.ts: the cached OAuth keys (null at start)
    cacheTimestamp, \* provider-registry.ts: Date.now() of the call that cached
    config,         \* table g5_config: its row, Null when the table is empty
    last,           \* history: the last call made at the current instant
    prev            \* history: the call made right before the last one

tokenVars == <<refreshTokens, nextTokenId, nextFamily, issued>>
sessionVars == <<sessions, nextSession, created>>
oauthVars == <<cookieJar, nextState, consumed>>
webVars == <<browser, cookieDomain, served>>
raceVars == <<calls, reuseDetected>>
cacheVars == <<cachedKeys, cacheTimestamp, config>>

vars ==
    <<now, tokenVars, sessionVars, oauthVars, webVars, raceVars, cacheVars,
      last, prev>>

---------------------------------------------------------------------------
(* Bounds of the model *)

MaxTime == 3
MaxTokens == 3
MaxSessionTime == 5
MaxSessions == 2
MaxStateTime == 3
MaxStates == 2

Members == {"u1", "u2"}

(* The refresh-token machine follows the tokens of one member: rows of
   different members share no token hash (the hash covers sub) and no
   family, and no statement but revokeAllUserTokens reads mb_id. *)
TokenHolders == {"u1"}

(* Option values: SQL NULL / JS null is the empty tuple. *)
Null == <<>>
Some(x) == <<x>>
Val(o) == o[1]

NoCall == [op |-> "none"]

---------------------------------------------------------------------------
(* jwt.ts *)

REFRESH_TOKEN_TTL_MS == 2

(* setExpirationTime('15m') of the access token, on the scale of the
   refresh-token lifetime *)
ACCESS_TOKEN_TTL == 1

JWT_SECRET == "JWT_SECRET"
DAMOANG_JWT_SECRET == "DAMOANG_JWT_SECRET"

(* payload.name of a decoded token: the default stands for undefined *)
Claim(token, name, default) ==
    IF name \in DOMAIN token THEN token[name] ELSE default

(* a || b on strings, and on numbers *)
OrElse(a, b) == IF a = "" THEN b ELSE a
OrElseNumber(a, b) == IF a = 0 THEN b ELSE a

(* new SignJWT({sub}).setProtectedHeader(HS256).setIssuedAt()
   .setExpirationTime('7d').setIssuer('angple').sign(secret):
   HS256 is deterministic, so the compact token is a function of the
   claims and of the key alone. *)
SignRefreshJWT(mbId, t) ==
    [sub |-> mbId, iat |-> t, exp |-> t + REFRESH_TOKEN_TTL_MS,
     iss |-> "angple", key |-> JWT_SECRET]

(* jwtVerify(token, secret, {issuer: 'angple'}): signature, issuer, exp;
   the payload returned has the claims the token lacks defaulted. *)
verifyToken(token, t) ==
    IF /\ token.key = JWT_SECRET
       /\ Claim(token, "iss", "") = "angple"
       /\ token.exp > t
    THEN Some([sub |-> token.sub,
               nickname |-> OrElse(Claim(token, "nickname", ""), ""),
               level |-> OrElseNumber(Claim(token, "level", 0), 0),
               email |-> OrElse(Claim(token, "email", ""), "")])
    ELSE Null

(* jwtVerify(token, damoangSecret): signature and exp, no issuer; the
   member id is the first non-empty of mb_id, sub and user_id. *)
verifyTokenLax(token, t) ==
    LET sub == OrElse(Claim(token, "mb_id", ""),
                      OrElse(Claim(token, "sub", ""),
                             Claim(token, "user_id", "")))
    IN IF token.key # DAMOANG_JWT_SECRET \/ ~(token.exp > t) THEN Null
       ELSE IF sub = "" THEN Null
       ELSE Some([sub |-> sub,
                  nickname |-> OrElse(Claim(token, "mb_name", ""),
                                   OrElse(Claim(token, "mb_nick", ""),
                                          Claim(token, "nickname", ""))),
                  level |-> OrElseNumber(Claim(token, "mb_level", 0),
                                         Claim(token, "level", 0)),
                  email |-> OrElse(Claim(token, "mb_email", ""),
                                   Claim(token, "email", ""))])

---------------------------------------------------------------------------
(* token-store.ts *)

hashToken(token) == <<"sha256", token>>

(* generateFamilyId: the n-th random family id *)
generateFamilyId(n) == <<"family", n>>

storeRefreshToken(rows, id, tokenHash, mbId, familyId, expiresAt) ==
    rows \cup {[id |-> id, token_hash |-> tokenHash, mb_id |-> mbId,
                family_id |-> familyId, expires_at |-> expiresAt,
                revoked_at |-> Null]}

(* UPDATE ... SET revoked_at = NOW() WHERE token_hash = ? AND revoked_at IS NULL *)
revokeToken(rows, tokenHash, t) ==
    {IF r.token_hash = tokenHash /\ r.revoked_at = Null
     THEN [r EXCEPT !.revoked_at = Some(t)] ELSE r : r \in rows}

(* UPDATE ... SET revoked_at = NOW() WHERE family_id = ? AND revoked_at IS NULL *)
revokeTokenFamily(rows, familyId, t) ==
    {IF r.family_id = familyId /\ r.revoked_at = Null
     THEN [r EXCEPT !.revoked_at = Some(t)] ELSE r : r \in rows}

(* UPDATE ... SET revoked_at = NOW() WHERE mb_id = ? AND revoked_at IS NULL *)
revokeAllUserTokens(rows, mbId, t) ==
    {IF r.mb_id = mbId /\ r.revoked_at = Null
     THEN [r EXCEPT !.revoked_at = Some(t)] ELSE r : r \in rows}

(* DELETE FROM angple_refresh_tokens WHERE expires_at < NOW() *)
cleanupExpiredTokens(rows, t) == {r \in rows : ~(r.expires_at < t)}

(* SELECT ... WHERE token_hash = ? LIMIT 1: token_hash has a plain INDEX,
   not a UNIQUE KEY, and the query has no ORDER BY, so any one of the
   matching rows may be the one returned. The result is the set of the
   possible outcomes: Null when no row matches. *)
SelectTokenRow(rows, tokenHash) ==
    IF \E r \in rows : r.token_hash = tokenHash
    THEN {Some(r) : r \in {x \in rows : x.token_hash = tokenHash}}
    ELSE {Null}

(* findValidToken, given the row its SELECT returned *)
findValidToken_expiredFirst(rows, sel, t) ==
    IF sel = Null THEN [ret |-> Null, rows |-> rows]
    ELSE IF t > Val(sel).expires_at THEN [ret |-> Null, rows |-> rows]
    ELSE IF Val(sel).revoked_at # Null
         THEN [ret |-> Null,
               rows |-> revokeTokenFamily(rows, Val(sel).family_id, t)]
    ELSE [ret |-> Some([mbId |-> Val(sel).mb_id,
                        familyId |-> Val(sel).family_id]),
          rows |-> rows]

findValidToken(rows, sel, t) ==
    IF sel = Null THEN [ret |-> Null, rows |-> rows]
    ELSE IF Val(sel).revoked_at # Null
         THEN [ret |-> Null,
               rows |-> revokeTokenFamily(rows, Val(sel).family_id, t)]
    ELSE IF t > Val(sel).expires_at THEN [ret |-> Null, rows |-> rows]
    ELSE [ret |-> Some([mbId |-> Val(sel).mb_id,
                        familyId |-> Val(sel).family_id]),
          rows |-> rows]

(* generateRefreshToken: familyId is metadata?.familyId || generateFamilyId() *)
generateRefreshToken(rows, id, fam, mbId, familyId, t) ==
    LET family == IF familyId # Null THEN Val(familyId)
                  ELSE generateFamilyId(fam + 1)
        token == SignRefreshJWT(mbId, t)
    IN [token |-> token, familyId |-> family,
        rows |-> storeRefreshToken(rows, id, hashToken(token), mbId, family,
                                   t + REFRESH_TOKEN_TTL_MS),
        nextId |-> id + 1,
        nextFamily |-> IF familyId # Null THEN fam ELSE fam + 1]

(* rotateRefreshToken, given the row the SELECT of findValidToken returned *)
rotateRefreshToken_noVerify(rows, id, fam, oldToken, sel, t) ==
    LET found == findValidToken(rows, sel, t)
    IN IF found.ret = Null
       THEN [ret |-> Null, rows |-> found.rows, nextId |-> id,
             nextFamily |-> fam]
       ELSE LET gen == generateRefreshToken(
                           revokeToken(found.rows, hashToken(oldToken), t),
                           id, fam, Val(found.ret).mbId,
                           Some(Val(found.ret).familyId), t)
            IN [ret |-> Some([token |-> gen.token,
                              mbId |-> Val(found.ret).mbId]),
                rows |-> gen.rows, nextId |-> gen.nextId,
                nextFamily |-> gen.nextFamily]

rotateRefreshToken(rows, id, fam, oldToken, sel, t) ==
    LET payload == verifyToken(oldToken, t)
        found == findValidToken(rows, sel, t)
    IN IF payload = Null \/ Val(payload).sub = ""
       THEN [ret |-> Null, rows |-> rows, nextId |-> id, nextFamily |-> fam]
       ELSE IF found.ret = Null
       THEN [ret |-> Null, rows |-> found.rows, nextId |-> id,
             nextFamily |-> fam]
       ELSE LET gen == generateRefreshToken(
                           revokeToken(found.rows, hashToken(oldToken), t),
                           id, fam, Val(found.ret).mbId,
                           Some(Val(found.ret).familyId), t)
            IN [ret |-> Some([token |-> gen.token,
                              mbId |-> Val(found.ret).mbId]),
                rows |-> gen.rows, nextId |-> gen.nextId,
                nextFamily |-> gen.nextFamily]

---------------------------------------------------------------------------
(* The refresh-token store as a state machine *)

(* A well-signed token of this issuer that the store never saw (an
   access token, for one). *)
UnknownToken ==
    [sub |-> "u1", iat |-> 0, exp |-> MaxTime + 2, iss |-> "angple",
     key |-> JWT_SECRET]

(* Tokens a client may present without having been issued them: a wrong
   issuer, a wrong key, an empty subject. *)
ForgedTokens ==
    {[sub |-> "u1", iat |-> 0, exp |-> MaxTime + 2, iss |-> "other",
      key |-> JWT_SECRET],
     [sub |-> "u1", iat |-> 0, exp |-> MaxTime + 2, iss |-> "angple",
      key |-> "forged"],
     [sub |-> "", iat |-> 0, exp |-> MaxTime + 2, iss |-> "angple",
      key |-> JWT_SECRET]}

(* history: the families of the rows of a hash that are revoked *)
RevokedFamiliesOf(rows, tokenHash) ==
    {r.family_id : r \in {x \in rows : x.token_hash = tokenHash
                                       /\ x.revoked_at # Null}}

(* history: the rows of newRows whose id no row of rows has *)
Inserted(rows, newRows) ==
    {r \in newRows : \A x \in rows : x.id # r.id}

(* history: the families in which a rotation of tok has issued a token *)
RotatedIn(tok) ==
    {issued[k].familyId :
        k \in {i \in 1..Len(issued) : issued[i].parent = Some(tok)}}

(* No findValidToken call can accept a token hash of the family. *)
FamilyDead(familyId) ==
    \A r \in {x \in refreshTokens : x.family_id = familyId} :
        \A sel \in SelectTokenRow(refreshTokens, r.token_hash) :
            findValidToken(refreshTokens, sel, now).ret = Null

InitTokens ==
    /\ now = 0
    /\ refreshTokens = {}
    /\ nextTokenId = 1
    /\ nextFamily = 0
    /\ issued = <<>>
    /\ sessions = {}
    /\ nextSession = 0
    /\ created = <<>>
    /\ cookieJar = Null
    /\ nextState = 0
    /\ consumed = {}
    /\ browser = {}
    /\ cookieDomain = ""
    /\ served = 0
    /\ calls = {}
    /\ reuseDetected = {}
    /\ cachedKeys = Null
    /\ cacheTimestamp = 0
    /\ config = Some(1)
    /\ last = NoCall
    /\ prev = NoCall

(* Time passes; the history of calls is that of the current instant. *)
Tick(horizon) ==
    /\ now < horizon
    /\ now' = now + 1
    /\ last' = NoCall
    /\ prev' = NoCall
    /\ UNCHANGED <<cacheVars, tokenVars, sessionVars, oauthVars, webVars,
                   raceVars>>

(* login / registration / OAuth callback: generateRefreshToken(mbId) *)
IssueRefreshToken(mbId) ==
    /\ nextTokenId <= MaxTokens
    /\ LET gen == generateRefreshToken(refreshTokens, nextTokenId, nextFamily,
                                       mbId, Null, now)
       IN /\ refreshTokens' = gen.rows
          /\ nextTokenId' = gen.nextId
          /\ nextFamily' = gen.nextFamily
          /\ issued' = Append(issued, [token |-> gen.token,
                                       lineage |-> nextTokenId,
                                       parent |-> Null,
                                       familyId |-> gen.familyId])
          /\ last' = [op |-> "generateRefreshToken"]
    /\ UNCHANGED <<cacheVars, now, prev, sessionVars, oauthVars, webVars,
                   raceVars>>

(* A client presents oldToken to rotateRefreshToken; lineage is the login
   the client's token descends from. *)
Rotate(oldToken, lineage) ==
    /\ \E sel \in SelectTokenRow(refreshTokens, hashToken(oldToken)) :
        LET rot == rotateRefreshToken(refreshTokens, nextTokenId, nextFamily,
                                      oldToken, sel, now)
            ins == Inserted(refreshTokens, rot.rows)
        IN /\ rot.ret # Null => nextTokenId <= MaxTokens
           /\ refreshTokens' = rot.rows
           /\ nextTokenId' = rot.nextId
           /\ nextFamily' = rot.nextFamily
           /\ issued' = IF rot.ret = Null THEN issued
                        ELSE Append(issued,
                               [token |-> Val(rot.ret).token,
                                lineage |-> lineage,
                                parent |-> Some(oldToken),
                                familyId |->
                                    (CHOOSE r \in ins : TRUE).family_id])
           /\ last' = [op |-> "rotateRefreshToken", ret |-> rot.ret,
                       verifies |-> verifyToken(oldToken, now) # Null,
                       storeOk |-> findValidToken(refreshTokens, sel,
                                                  now).ret # Null,
                       reused |-> RotatedIn(oldToken),
                       inserted |-> ins # {},
                       same |-> rot.rows = refreshTokens]
    /\ UNCHANGED <<cacheVars, now, prev, sessionVars, oauthVars, webVars,
                   raceVars>>

RotateRefreshToken ==
    \/ \E k \in 1..Len(issued) : Rotate(issued[k].token, issued[k].lineage)
    \/ \E tok \in ForgedTokens \cup {UnknownToken} : Rotate(tok, 0)

(* findValidToken called with the hash of a token ever issued, or of none *)
FindValidToken ==
    /\ \E tok \in {issued[k].token : k \in 1..Len(issued)} \cup {UnknownToken} :
         \E sel \in SelectTokenRow(refreshTokens, hashToken(tok)) :
            LET res == findValidToken(refreshTokens, sel, now)
            IN /\ refreshTokens' = res.rows
               /\ last' = [op |-> "findValidToken", ret |-> res.ret,
                           sel |-> sel,
                           same |-> res.rows = refreshTokens,
                           revokedFamilies |-> RevokedFamiliesOf(
                               refreshTokens, hashToken(tok)),
                           reused |-> RotatedIn(tok)]
    /\ UNCHANGED <<cacheVars, now, nextTokenId, nextFamily, issued, prev,
                   sessionVars,
                   oauthVars, webVars, raceVars>>

(* logout: revokeToken(hashToken(refresh_token cookie)) *)
RevokeToken ==
    /\ \E k \in 1..Len(issued) :
         /\ refreshTokens' = revokeToken(refreshTokens,
                                         hashToken(issued[k].token), now)
         /\ last' = [op |-> "revokeToken"]
    /\ UNCHANGED <<cacheVars, now, nextTokenId, nextFamily, issued, prev,
                   sessionVars,
                   oauthVars, webVars, raceVars>>

RevokeAllUserTokens ==
    /\ \E m \in TokenHolders :
         /\ refreshTokens' = revokeAllUserTokens(refreshTokens, m, now)
         /\ last' = [op |-> "revokeAllUserTokens"]
    /\ UNCHANGED <<cacheVars, now, nextTokenId, nextFamily, issued, prev,
                   sessionVars,
                   oauthVars, webVars, raceVars>>

CleanupExpiredTokens ==
    /\ refreshTokens' = cleanupExpiredTokens(refreshTokens, now)
    /\ last' = [op |-> "cleanupExpiredTokens"]
    /\ UNCHANGED <<cacheVars, now, nextTokenId, nextFamily, issued, prev,
                   sessionVars,
                   oauthVars, webVars, raceVars>>

NextTokens ==
    \/ Tick(MaxTime)
    \/ \E m \in TokenHolders : IssueRefreshToken(m)
    \/ RotateRefreshToken
    \/ FindValidToken
    \/ RevokeToken
    \/ RevokeAllUserTokens
    \/ CleanupExpiredTokens

SpecTokens == InitTokens /\ [][NextTokens]_vars

---------------------------------------------------------------------------
(* Claims about the refresh-token store *)

(* C1: findValidToken called with the hash of a token whose row has
   revokedAt set returns null, and afterwards every row that has the
   family id of such a row is revoked. *)
C1_RevokedTokenRevokesFamily ==
    (last.op = "findValidToken" /\ last.revokedFamilies # {}) =>
        /\ last.ret = Null
        /\ \A r \in refreshTokens :
              r.family_id \in last.revokedFamilies => r.revoked_at # Null

(* C2: presenting a token that has been rotated yields no new token, and
   from then on findValidToken returns null for every token hash of the
   family the rotation continued (the newest token included). *)
C2_ReuseKillsFamily ==
    (last.op \in {"rotateRefreshToken", "findValidToken"}
        /\ last.reused # {}) =>
        /\ last.ret = Null
        /\ \A f \in last.reused : FamilyDead(f)

(* C3: all stored rows that descend from one login (one generateRefreshToken
   call without familyId, then successive rotations) carry the same
   familyId and the same member id. *)
C3_LineageKeepsFamily ==
    \A r1, r2 \in refreshTokens :
        issued[r1.id].lineage = issued[r2.id].lineage =>
            r1.family_id = r2.family_id /\ r1.mb_id = r2.mb_id

(* C4: rotateRefreshToken returns null and inserts no row whenever the
   verification of the presented token fails or findValidToken returns null
   for its hash; when the verification fails the store is unchanged. *)
C4_FailedRotationStoresNothing ==
    last.op = "rotateRefreshToken" =>
        /\ (~last.verifies \/ ~last.storeOk) =>
               (last.ret = Null /\ ~last.inserted)
        /\ ~last.verifies => last.same

(* C4 witness: a rotation that the verification refuses (the JWT has
   expired) although the store row of the presented token is still valid. *)
C4_Witness ==
    /\ last.op = "rotateRefreshToken"
    /\ ~last.verifies
    /\ last.storeOk
    /\ last.ret = Null

(* C5: every token hash identifies at most one row. *)
C5_HashIdentifiesOneRow ==
    \A r1, r2 \in refreshTokens :
        r1.token_hash = r2.token_hash => r1 = r2

---------------------------------------------------------------------------
(* session-store.ts *)

SESSION_MAX_AGE_MS == 4
SESSION_REFRESH_THRESHOLD_MS == 2
LAST_ACTIVE_WRITE_INTERVAL_MS == 1

(* generateSessionId / generateCsrfToken: the n-th random values *)
generateSessionId(n) == <<"sid", n>>
generateCsrfToken(n) == <<"csrf", n>>

hashSessionId(sessionId) == <<"sha256", sessionId>>

(* createSession: the row stores the hash of the session id and the
   plaintext CSRF token; last_active_at defaults to CURRENT_TIMESTAMP. *)
createSession_hashedCsrf(rows, n, mbId, t) ==
    LET sessionId == generateSessionId(n + 1)
        csrfToken == generateCsrfToken(n + 1)
        expiresAt == t + SESSION_MAX_AGE_MS
    IN [ret |-> [sessionId |-> sessionId, csrfToken |-> csrfToken,
                 expiresAt |-> expiresAt],
        rows |-> rows \cup {[session_id_hash |-> hashSessionId(sessionId),
                             mb_id |-> mbId,
                             csrf_token |-> hashSessionId(csrfToken),
                             last_active_at |-> t,
                             expires_at |-> expiresAt]}]

createSession(rows, n, mbId, t) ==
    LET sessionId == generateSessionId(n + 1)
        csrfToken == generateCsrfToken(n + 1)
        expiresAt == t + SESSION_MAX_AGE_MS
    IN [ret |-> [sessionId |-> sessionId, csrfToken |-> csrfToken,
                 expiresAt |-> expiresAt],
        rows |-> rows \cup {[session_id_hash |-> hashSessionId(sessionId),
                             mb_id |-> mbId,
                             csrf_token |-> csrfToken,
                             last_active_at |-> t,
                             expires_at |-> expiresAt]}]

(* SELECT ... WHERE session_id_hash = ? LIMIT 1 (uk_session_hash is a
   UNIQUE KEY: at most one row matches) *)
SelectSessionRow(rows, sessionIdHash) ==
    IF \E r \in rows : r.session_id_hash = sessionIdHash
    THEN Some(CHOOSE r \in rows : r.session_id_hash = sessionIdHash)
    ELSE Null

SessionData(sessionId, row) ==
    [sessionId |-> sessionId, mbId |-> row.mb_id,
     csrfToken |-> row.csrf_token, lastActiveAt |-> row.last_active_at,
     expiresAt |-> row.expires_at]

(* getSession, lines 117-133: the sliding-window writes on a row that has
   not expired *)
touchSession_alwaysExtends(rows, sessionIdHash, row, t) ==
    IF t - row.last_active_at > LAST_ACTIVE_WRITE_INTERVAL_MS
    THEN {IF r.session_id_hash = sessionIdHash
          THEN [r EXCEPT !.last_active_at = t,
                         !.expires_at = t + SESSION_MAX_AGE_MS]
          ELSE r : r \in rows}
    ELSE rows

touchSession(rows, sessionIdHash, row, t) ==
    IF t - row.last_active_at > SESSION_REFRESH_THRESHOLD_MS
    THEN {IF r.session_id_hash = sessionIdHash
          THEN [r EXCEPT !.last_active_at = t,
                         !.expires_at = t + SESSION_MAX_AGE_MS]
          ELSE r : r \in rows}
    ELSE IF t - row.last_active_at > LAST_ACTIVE_WRITE_INTERVAL_MS
    THEN {IF r.session_id_hash = sessionIdHash
          THEN [r EXCEPT !.last_active_at = t]
          ELSE r : r \in rows}
    ELSE rows

(* getSession: expiry check, then the sliding-window writes; the data
   returned are those of the row as it was read. *)
getSession_keepsExpired(rows, sessionId, t) ==
    LET sessionIdHash == hashSessionId(sessionId)
        sel == SelectSessionRow(rows, sessionIdHash)
    IN IF sel = Null THEN [ret |-> Null, rows |-> rows]
       ELSE IF t > Val(sel).expires_at THEN [ret |-> Null, rows |-> rows]
       ELSE [ret |-> Some(SessionData(sessionId, Val(sel))),
             rows |-> touchSession(rows, sessionIdHash, Val(sel), t)]

getSession_expiresEarly(rows, sessionId, t) ==
    LET sessionIdHash == hashSessionId(sessionId)
        sel == SelectSessionRow(rows, sessionIdHash)
    IN IF sel = Null THEN [ret |-> Null, rows |-> rows]
       ELSE IF t >= Val(sel).expires_at
       THEN [ret |-> Null,
             rows |-> {r \in rows : r.session_id_hash # sessionIdHash}]
       ELSE [ret |-> Some(SessionData(sessionId, Val(sel))),
             rows |-> touchSession(rows, sessionIdHash, Val(sel), t)]

getSession(rows, sessionId, t) ==
    LET sessionIdHash == hashSessionId(sessionId)
        sel == SelectSessionRow(rows, sessionIdHash)
    IN IF sel = Null THEN [ret |-> Null, rows |-> rows]
       ELSE IF t > Val(sel).expires_at
       THEN [ret |-> Null,
             rows |-> {r \in rows : r.session_id_hash # sessionIdHash}]
       ELSE [ret |-> Some(SessionData(sessionId, Val(sel))),
             rows |-> touchSession(rows, sessionIdHash, Val(sel), t)]

(* DELETE FROM angple_sessions WHERE session_id_hash = ? *)
destroySession(rows, sessionId) ==
    {r \in rows : r.session_id_hash # hashSessionId(sessionId)}

(* DELETE FROM angple_sessions WHERE mb_id = ? *)
destroyAllUserSessions(rows, mbId) == {r \in rows : r.mb_id # mbId}

(* DELETE FROM angple_sessions WHERE expires_at < NOW() *)
cleanupExpiredSessions(rows, t) == {r \in rows : ~(r.expires_at < t)}

---------------------------------------------------------------------------
(* The session store as a state machine *)

(* The session ids a request may carry: those createSession has returned,
   and one that it never returned. *)
PresentedSessionIds ==
    {created[k].sessionId : k \in 1..Len(created)} \cup {<<"sid", 0>>}

InitSessions == InitTokens

(* A valid session: its row exists and has not expired. *)
IsValidSession(rows, sessionId, t) ==
    LET sel == SelectSessionRow(rows, hashSessionId(sessionId))
    IN sel # Null /\ ~(t > Val(sel).expires_at)

(* history: what is kept of the call before the last one *)
Before(call) ==
    IF call.op = "getSession"
    THEN [op |-> call.op, sessionId |-> call.sessionId, ret |-> call.ret,
          valid |-> call.valid]
    ELSE NoCall

CreateSession(mbId) ==
    /\ nextSession < MaxSessions
    /\ LET res == createSession(sessions, nextSession, mbId, now)
       IN /\ sessions' = res.rows
          /\ created' = Append(created, [sessionId |-> res.ret.sessionId,
                                         csrfToken |-> res.ret.csrfToken,
                                         mbId |-> mbId])
          /\ last' = [op |-> "createSession"]
    /\ nextSession' = nextSession + 1
    /\ prev' = Before(last)
    /\ UNCHANGED <<cacheVars, now, tokenVars, oauthVars, webVars, raceVars>>

GetSession(sessionId) ==
    /\ LET res == getSession(sessions, sessionId, now)
       IN /\ sessions' = res.rows
          /\ last' = [op |-> "getSession", sessionId |-> sessionId,
                      ret |-> res.ret,
                      pre |-> SelectSessionRow(sessions,
                                               hashSessionId(sessionId)),
                      store |-> sessions,
                      valid |-> IsValidSession(sessions, sessionId, now)]
    /\ prev' = Before(last)
    /\ UNCHANGED <<cacheVars, now, nextSession, created, tokenVars,
                   oauthVars, webVars,
                   raceVars>>

DestroySession(sessionId) ==
    /\ sessions' = destroySession(sessions, sessionId)
    /\ last' = [op |-> "destroySession"]
    /\ prev' = Before(last)
    /\ UNCHANGED <<cacheVars, now, nextSession, created, tokenVars,
                   oauthVars, webVars,
                   raceVars>>

DestroyAllUserSessions(mbId) ==
    /\ sessions' = destroyAllUserSessions(sessions, mbId)
    /\ last' = [op |-> "destroyAllUserSessions"]
    /\ prev' = Before(last)
    /\ UNCHANGED <<cacheVars, now, nextSession, created, tokenVars,
                   oauthVars, webVars,
                   raceVars>>

CleanupExpiredSessions ==
    /\ sessions' = cleanupExpiredSessions(sessions, now)
    /\ last' = [op |-> "cleanupExpiredSessions"]
    /\ prev' = Before(last)
    /\ UNCHANGED <<cacheVars, now, nextSession, created, tokenVars,
                   oauthVars, webVars,
                   raceVars>>

(* Members are interchangeable: the first session is u1's. *)
LoginMembers == IF created = <<>> THEN {"u1"} ELSE Members

NextSessions ==
    \/ Tick(MaxSessionTime)
    \/ \E m \in LoginMembers : CreateSession(m)
    \/ \E sid \in PresentedSessionIds : GetSession(sid)
    \/ \E sid \in PresentedSessionIds : DestroySession(sid)
    \/ \E m \in Members : DestroyAllUserSessions(m)
    \/ CleanupExpiredSessions

SpecSessions == InitSessions /\ [][NextSessions]_vars

---------------------------------------------------------------------------
(* Claims about the session store *)

(* history: what createSession returned for a session id *)
CreatedAs(sessionId) ==
    created[CHOOSE k \in 1..Len(created) : created[k].sessionId = sessionId]

(* the session row of a session id in the current store *)
RowOf(sessionId) == SelectSessionRow(sessions, hashSessionId(sessionId))

(* C6: getSession on a session whose expiresAt is strictly earlier than the
   current time returns null and deletes the row: a lookup of the same
   session id then finds no row. *)
C6_ExpiredSessionRemoved ==
    (last.op = "getSession" /\ last.pre # Null
        /\ Val(last.pre).expires_at < now) =>
        /\ last.ret = Null
        /\ RowOf(last.sessionId) = Null
        /\ getSession(sessions, last.sessionId, now).ret = Null

C6_Witness ==
    /\ last.op = "getSession"
    /\ last.pre # Null
    /\ Val(last.pre).expires_at < now
    /\ last.ret = Null
    /\ RowOf(last.sessionId) = Null

(* C7: for a valid (existing, not expired) session, two getSession calls
   made one right after the other both succeed and return the same member
   id and the same csrfToken. *)
C7_ValidateIdempotent ==
    (prev.op = "getSession" /\ last.op = "getSession"
        /\ prev.sessionId = last.sessionId /\ prev.valid) =>
        /\ prev.ret # Null
        /\ last.ret # Null
        /\ Val(last.ret).mbId = Val(prev.ret).mbId
        /\ Val(last.ret).csrfToken = Val(prev.ret).csrfToken

(* C7 witness: the first of the two calls wrote the row (it renewed the
   session) and the second succeeded. *)
C7_Witness ==
    /\ prev.op = "getSession" /\ last.op = "getSession"
    /\ prev.sessionId = last.sessionId
    /\ prev.valid
    /\ prev.ret # Null /\ last.ret # Null
    /\ Val(prev.ret).expiresAt < Val(last.ret).expiresAt

(* C8: a session accessed again within 15 days of its last activity is
   renewed (its expiresAt becomes the time of the access + 30 days), and
   so such an access is never refused. *)
C8_SlidingWindowRenews ==
    (last.op = "getSession" /\ last.pre # Null
        /\ ~(now > Val(last.pre).expires_at)
        /\ now - Val(last.pre).last_active_at
              <= SESSION_REFRESH_THRESHOLD_MS) =>
        /\ RowOf(last.sessionId) # Null
        /\ Val(RowOf(last.sessionId)).expires_at = now + SESSION_MAX_AGE_MS

(* C9: no operation changes the csrfToken or the member id of a session
   row, and every successful getSession returns the csrfToken (and the
   member) that createSession returned for the session id. *)
C9_CsrfTokenImmutable ==
    /\ \A k \in 1..Len(created) :
          LET row == RowOf(created[k].sessionId)
          IN row # Null =>
                /\ Val(row).csrf_token = created[k].csrfToken
                /\ Val(row).mb_id = created[k].mbId
    /\ (last.op = "getSession" /\ last.ret # Null) =>
          /\ Val(last.ret).csrfToken = CreatedAs(last.sessionId).csrfToken
          /\ Val(last.ret).mbId = CreatedAs(last.sessionId).mbId

(* C9 witness: a successful getSession that has renewed the session row *)
C9_Witness ==
    /\ last.op = "getSession"
    /\ last.ret # Null
    /\ RowOf(last.sessionId) # Null
    /\ Val(RowOf(last.sessionId)).expires_at > Val(last.ret).expiresAt
    /\ Val(last.ret).csrfToken = CreatedAs(last.sessionId).csrfToken

---------------------------------------------------------------------------
(* oauth/state.ts *)

STATE_MAX_AGE == 600

(* Date.now(): milliseconds, at a clock that counts seconds *)
DateNow(t) == t * 1000

Providers == {"naver", "apple"}
RedirectUrls == {"/", "/free"}

(* generateRandomState: the n-th random state *)
generateRandomState(n) == <<"state", n>>

(* JSON.stringify / JSON.parse of the cookie value; a value that is not
   JSON makes JSON.parse throw (Null here). *)
JSONstringify(data) == <<"json", data>>
JSONparse(raw) == IF raw[1] = "json" THEN Some(raw[2]) ELSE Null

(* createOAuthState: the state and the value given to cookies.set *)
createOAuthState(n, provider, redirectUrl, t) ==
    LET state == generateRandomState(n + 1)
    IN [state |-> state,
        cookie |-> JSONstringify([state |-> state, provider |-> provider,
                                  redirect |-> redirectUrl,
                                  timestamp |-> DateNow(t)])]

(* validateOAuthState, given the value cookies.get returned (Null when the
   request has no oauth_state cookie); delete tells whether cookies.delete
   was called. *)
validateOAuthState_keepsCookie(raw, state, t) ==
    IF raw = Null THEN [ret |-> Null, delete |-> FALSE]
    ELSE LET data == JSONparse(Val(raw))
         IN IF data = Null THEN [ret |-> Null, delete |-> FALSE]
            ELSE IF Val(data).state # state
            THEN [ret |-> Null, delete |-> FALSE]
            ELSE IF DateNow(t) - Val(data).timestamp > STATE_MAX_AGE * 1000
            THEN [ret |-> Null, delete |-> FALSE]
            ELSE [ret |-> data, delete |-> FALSE]

validateOAuthState_expiresEarly(raw, state, t) ==
    IF raw = Null THEN [ret |-> Null, delete |-> FALSE]
    ELSE LET data == JSONparse(Val(raw))
         IN IF data = Null THEN [ret |-> Null, delete |-> FALSE]
            ELSE IF Val(data).state # state
            THEN [ret |-> Null, delete |-> FALSE]
            ELSE IF DateNow(t) - Val(data).timestamp >= STATE_MAX_AGE * 1000
            THEN [ret |-> Null, delete |-> FALSE]
            ELSE [ret |-> data, delete |-> TRUE]

validateOAuthState_deletesExpired(raw, state, t) ==
    IF raw = Null THEN [ret |-> Null, delete |-> FALSE]
    ELSE LET data == JSONparse(Val(raw))
         IN IF data = Null THEN [ret |-> Null, delete |-> FALSE]
            ELSE IF Val(data).state # state
            THEN [ret |-> Null, delete |-> FALSE]
            ELSE IF DateNow(t) - Val(data).timestamp > STATE_MAX_AGE * 1000
            THEN [ret |-> Null, delete |-> TRUE]
            ELSE [ret |-> data, delete |-> TRUE]

validateOAuthState(raw, state, t) ==
    IF raw = Null THEN [ret |-> Null, delete |-> FALSE]
    ELSE LET data == JSONparse(Val(raw))
         IN IF data = Null THEN [ret |-> Null, delete |-> FALSE]
            ELSE IF Val(data).state # state
            THEN [ret |-> Null, delete |-> FALSE]
            ELSE IF DateNow(t) - Val(data).timestamp > STATE_MAX_AGE * 1000
            THEN [ret |-> Null, delete |-> FALSE]
            ELSE [ret |-> data, delete |-> TRUE]

---------------------------------------------------------------------------
(* The OAuth state cookie as a state machine. cookieJar is the browser's
   oauth_state cookie: its value and the time it was set (for maxAge).
   The jar is that of a browser that honours what the server sends: a
   cookie the server has deleted is not sent again. The state lives in
   the cookie alone (the server keeps no record of it), so nothing here
   covers a client that stores the cookie value and sends it again. *)

CookieValue(jar) == IF jar = Null THEN Null ELSE Some(Val(jar).value)

(* The state strings a callback may carry: those createOAuthState has
   returned, and one that it never returned. *)
PresentedStates ==
    {generateRandomState(k) : k \in 1..nextState} \cup {<<"state", 0>>}

InitOAuth == InitTokens

(* The clock of the OAuth state machine is read at the multiples of half
   the TTL and one second after each of them, up to MaxStateTime halves. *)
StateClockStep == STATE_MAX_AGE \div 2

TickSeconds(d) ==
    /\ now < MaxStateTime * StateClockStep
    /\ d = 1 => now % StateClockStep = 0
    /\ now' = now + d
    /\ last' = NoCall
    /\ prev' = NoCall
    /\ UNCHANGED <<cacheVars, tokenVars, sessionVars, oauthVars, webVars,
                   raceVars>>

(* GET /auth/oauth/start: createOAuthState sets the cookie *)
CreateOAuthState(provider, redirectUrl) ==
    /\ nextState < MaxStates
    /\ LET res == createOAuthState(nextState, provider, redirectUrl, now)
       IN /\ cookieJar' = Some([value |-> res.cookie, setAt |-> now])
          /\ last' = [op |-> "createOAuthState", state |-> res.state]
    /\ nextState' = nextState + 1
    /\ prev' = NoCall
    /\ UNCHANGED <<cacheVars, now, consumed, tokenVars, sessionVars, webVars,
                   raceVars>>

(* the callback: validateOAuthState reads, and on success deletes, the cookie *)
ValidateOAuthState(state) ==
    /\ LET res == validateOAuthState(CookieValue(cookieJar), state, now)
       IN /\ cookieJar' = IF res.delete THEN Null ELSE cookieJar
          /\ consumed' = IF res.ret # Null THEN consumed \cup {state}
                         ELSE consumed
          /\ last' = [op |-> "validateOAuthState", state |-> state,
                      ret |-> res.ret, pre |-> CookieValue(cookieJar),
                      wasConsumed |-> state \in consumed]
    /\ prev' = IF last.op = "validateOAuthState"
               THEN [op |-> last.op, state |-> last.state, ret |-> last.ret]
               ELSE NoCall
    /\ UNCHANGED <<cacheVars, now, nextState, tokenVars, sessionVars,
                   webVars, raceVars>>

(* The browser drops the cookie once its maxAge has passed. *)
BrowserExpiresCookie ==
    /\ cookieJar # Null
    /\ now - Val(cookieJar).setAt >= STATE_MAX_AGE
    /\ cookieJar' = Null
    /\ last' = [op |-> "expireCookie"]
    /\ prev' = NoCall
    /\ UNCHANGED <<cacheVars, now, nextState, consumed, tokenVars,
                   sessionVars, webVars, raceVars>>

(* The client sends a cookie value that is not what the server has set. *)
ClientForgesCookie ==
    /\ cookieJar' = Some([value |-> <<"garbage">>, setAt |-> now])
    /\ last' = [op |-> "forgeCookie"]
    /\ prev' = NoCall
    /\ UNCHANGED <<cacheVars, now, nextState, consumed, tokenVars,
                   sessionVars, webVars, raceVars>>

NextOAuth ==
    \/ \E d \in {1, StateClockStep} : TickSeconds(d)
    \/ \E p \in Providers, u \in RedirectUrls : CreateOAuthState(p, u)
    \/ \E st \in PresentedStates : ValidateOAuthState(st)
    \/ BrowserExpiresCookie
    \/ ClientForgesCookie

SpecOAuth == InitOAuth /\ [][NextOAuth]_vars

---------------------------------------------------------------------------
(* Claims about the OAuth state *)

(* C10: the OAuth state is single-use. A validateOAuthState call made with
   the exact state string of the cookie within the TTL returns the state
   data and removes the cookie; every later call with a state string that
   a call has accepted returns null. *)
C10_StateSingleUse ==
    last.op = "validateOAuthState" =>
        /\ (last.pre # Null /\ JSONparse(Val(last.pre)) # Null
              /\ Val(JSONparse(Val(last.pre))).state = last.state
              /\ DateNow(now) - Val(JSONparse(Val(last.pre))).timestamp
                    <= STATE_MAX_AGE * 1000) =>
               /\ last.ret = JSONparse(Val(last.pre))
               /\ cookieJar = Null
        /\ last.wasConsumed => last.ret = Null

(* C10 witness: a state is accepted, and the next call with it is refused *)
C10_Witness ==
    /\ prev.op = "validateOAuthState" /\ prev.ret # Null
    /\ last.op = "validateOAuthState" /\ last.state = prev.state
    /\ last.wasConsumed
    /\ last.ret = Null

(* what validateOAuthState read: the parsed cookie of the last call *)
LastStateData == JSONparse(Val(last.pre))

(* C11: validateOAuthState accepts a matching state exactly when at most
   600 seconds have passed since the state was issued: at 600 seconds it
   succeeds, at 601 seconds (and later) it returns null. *)
C11_StateTTLBoundary ==
    (last.op = "validateOAuthState" /\ last.pre # Null
        /\ LastStateData # Null
        /\ Val(LastStateData).state = last.state) =>
        (last.ret # Null <=>
            DateNow(now) - Val(LastStateData).timestamp <= 600 * 1000)

(* C11 witness: a state validated exactly 600 seconds after it was issued *)
C11_Witness ==
    /\ last.op = "validateOAuthState" /\ last.pre # Null
    /\ LastStateData # Null
    /\ Val(LastStateData).state = last.state
    /\ DateNow(now) - Val(LastStateData).timestamp = 600 * 1000
    /\ last.ret = LastStateData

---------------------------------------------------------------------------
(* The browser's cookies as the handlers see them (SvelteKit cookies.get,
   cookies.set, cookies.delete). A browser keeps one cookie per name and
   Domain attribute: domain "" is a host-only cookie, and the site is
   served from a host below COOKIE_DOMAIN, so that a cookie set with the
   Domain attribute and a host-only cookie of the same name are two
   cookies. *)

SESSION_COOKIE_NAME == "angple_sid"
CSRF_COOKIE_NAME == "angple_csrf"

cookiesSet(jar, name, value, domain) ==
    {c \in jar : ~(c.name = name /\ c.domain = domain)}
        \cup {[name |-> name, domain |-> domain, value |-> value]}

cookiesDelete(jar, name, domain) ==
    {c \in jar : ~(c.name = name /\ c.domain = domain)}

(* cookies.get: the values a request may carry under the name (the first
   one of the Cookie header; which one that is, is the browser's choice) *)
cookiesGet(jar, name) ==
    IF \E c \in jar : c.name = name
    THEN {Some(c.value) : c \in {x \in jar : x.name = name}}
    ELSE {Null}

(* a JWT as the text of a cookie, and back *)
tokenCookie(token) == <<"jwt", token>>
cookieToken(value) == value[2]

HasCookie(jar, name) == \E c \in jar : c.name = name

---------------------------------------------------------------------------
(* Exceptions and the outcome of a request handler *)

(* redirect(status, location) of SvelteKit throws a Redirect *)
Redirect(status, location) ==
    [kind |-> "Redirect", status |-> status, location |-> location]

(* new Error(...), a TypeError, an error of the database driver *)
PlainError == [kind |-> "Error"]

HasStatus(err) == "status" \in DOMAIN err
HasLocation(err) == "location" \in DOMAIN err

LoginError(reason) == [path |-> "/login", error |-> reason]

(* how a handler ends: it throws, it returns a Response, or (an action) it
   returns a failure *)
Thrown(err) == [type |-> "throw", value |-> err]
Responded(status) == [type |-> "response", status |-> status]

(* The state a handler works on, the steps it has taken (trace), what its
   try block raised and how it ended. *)
Context ==
    [trace |-> <<>>, raised |-> Null, outcome |-> Null, stateData |-> Null,
     mbId |-> Null, locals |-> Null,
     cookieJar |-> cookieJar, nextState |-> nextState, browser |-> browser,
     sessions |-> sessions, nextSession |-> nextSession,
     created |-> created,
     refreshTokens |-> refreshTokens, nextTokenId |-> nextTokenId,
     nextFamily |-> nextFamily, issued |-> issued]

Step(c, name) == [c EXCEPT !.trace = Append(@, name)]
Raise(c, err) == [c EXCEPT !.raised = Some(err)]
Finish(c, outcome) == [c EXCEPT !.outcome = Some(outcome)]

Did(c, name) == \E k \in 1..Len(c.trace) : c.trace[k] = name

(* the handler's writes become the state *)
Commit(c) ==
    /\ cookieJar' = c.cookieJar
    /\ nextState' = c.nextState
    /\ browser' = c.browser
    /\ sessions' = c.sessions
    /\ nextSession' = c.nextSession
    /\ created' = c.created
    /\ refreshTokens' = c.refreshTokens
    /\ nextTokenId' = c.nextTokenId
    /\ nextFamily' = c.nextFamily
    /\ issued' = c.issued

---------------------------------------------------------------------------
(* oauth/provider-registry.ts *)

VALID_PROVIDERS ==
    {"naver", "kakao", "google", "facebook", "apple", "twitter", "payco"}

(* String.toLowerCase on the provider names a request carries *)
toLowerCase(str) ==
    IF str = "Twitter" THEN "twitter"
    ELSE IF str = "Naver" THEN "naver"
    ELSE str

isValidProvider(provider) == toLowerCase(provider) \in VALID_PROVIDERS

normalizeProviderName(name) ==
    IF toLowerCase(name) \in VALID_PROVIDERS THEN Some(toLowerCase(name))
    ELSE Null

(* getCallbackUrl, lines 161-165: the path of the callback URL on the site
   (the origin is SITE_URL or an allowed origin) *)
getCallbackUrl(provider) == <<"/auth/callback/", toLowerCase(provider)>>

(* provider instanceof TwitterProvider *)
IsTwitterProvider(providerName) == providerName = "twitter"

---------------------------------------------------------------------------
(* GET /auth/start (routes/auth/start/+server.ts) *)

(* TwitterProvider.generateCodeVerifier: a fresh random verifier *)
generateCodeVerifier(n) == <<"verifier", n>>

(* provider.getAuthorizationUrl(state) *)
getAuthorizationUrl(providerName, state) ==
    [path |-> "authorize", provider |-> providerName, state |-> state]

(* the try block of GET, lines 28-49 *)
oauthStartTry_otherState(providerName, redirectUrl, env, c, cd, t) ==
    LET c1 == Step(c, "getProvider")
    IN IF env.throwAt = "getProvider" THEN Raise(c1, env.thrown)
       ELSE
       LET res == createOAuthState(c.nextState, providerName, redirectUrl, t)
           c2 == [Step(c1, "createOAuthState") EXCEPT
                    !.cookieJar = Some([value |-> res.cookie, setAt |-> t]),
                    !.nextState = @ + 1]
           c3 == Step(c2, "getAuthorizationUrl")
           authUrl == getAuthorizationUrl(providerName,
                                          generateRandomState(c.nextState + 2))
       IN IF env.throwAt = "getAuthorizationUrl" THEN Raise(c3, env.thrown)
          ELSE IF IsTwitterProvider(providerName)
          THEN Raise([Step(c3, "cookies.set(oauth_pkce)") EXCEPT
                        !.browser = cookiesSet(@, "oauth_pkce",
                            generateCodeVerifier(c.nextState + 1), cd)],
                     Redirect(302, authUrl))
          ELSE Raise(c3, Redirect(302, authUrl))

oauthStartTry(providerName, redirectUrl, env, c, cd, t) ==
    LET c1 == Step(c, "getProvider")
    IN IF env.throwAt = "getProvider" THEN Raise(c1, env.thrown)
       ELSE
       LET res == createOAuthState(c.nextState, providerName, redirectUrl, t)
           c2 == [Step(c1, "createOAuthState") EXCEPT
                    !.cookieJar = Some([value |-> res.cookie, setAt |-> t]),
                    !.nextState = @ + 1]
           c3 == Step(c2, "getAuthorizationUrl")
           authUrl == getAuthorizationUrl(providerName, res.state)
       IN IF env.throwAt = "getAuthorizationUrl" THEN Raise(c3, env.thrown)
          ELSE IF IsTwitterProvider(providerName)
          THEN Raise([Step(c3, "cookies.set(oauth_pkce)") EXCEPT
                        !.browser = cookiesSet(@, "oauth_pkce",
                            generateCodeVerifier(c.nextState + 1), cd)],
                     Redirect(302, authUrl))
          ELSE Raise(c3, Redirect(302, authUrl))

(* the catch block of GET, lines 50-57 *)
oauthStartCatch(err) ==
    IF HasStatus(err) /\ HasLocation(err) THEN Thrown(err)
    ELSE Responded(500)

oauthStartGET(providerParam, redirectParam, env, c, cd, t) ==
    IF providerParam = Null \/ ~isValidProvider(Val(providerParam))
    THEN Finish(c, Responded(400))
    ELSE LET r == oauthStartTry(toLowerCase(Val(providerParam)),
                      IF redirectParam = Null THEN "/" ELSE Val(redirectParam),
                      env, c, cd, t)
         IN Finish(r, oauthStartCatch(Val(r.raised)))

---------------------------------------------------------------------------
(* The OAuth callback (routes/auth/callback/[provider]/+server.ts, route
   "auth", and the PHP-compatible /plugin/social/ route, route "plugin").
   What the provider, the database and the platform answer is the
   environment env of a request:
     throwAt, thrown  the call that throws, and what it throws
     profile          what getUserProfile returns
     link             what findSocialProfile returns
     byEmail          the mb_id of the row findMemberByEmail returns
     member           what getMemberById finds: "missing", "inactive",
                      "active" (isMemberActive) *)

(* lines 133-164: the member is active: link, timestamp, session, cookies *)
callbackLogin(route, stateData, mbId, env, c, t) ==
    LET c1 == Step(c, "upsertSocialProfile")
        c2 == Step(c1, "updateLoginTimestamp")
        c3 == Step(c2, "createSession")
        s == createSession(c.sessions, c.nextSession, mbId, t)
        c4 == [c3 EXCEPT
                 !.sessions = s.rows,
                 !.nextSession = @ + 1,
                 !.created = Append(@, [sessionId |-> s.ret.sessionId,
                                        csrfToken |-> s.ret.csrfToken,
                                        mbId |-> mbId]),
                 !.browser = cookiesSet(
                     cookiesSet(@, SESSION_COOKIE_NAME, s.ret.sessionId, ""),
                     CSRF_COOKIE_NAME, s.ret.csrfToken, "")]
        c5 == Step(c4, "generateRefreshToken")
        g == generateRefreshToken(c.refreshTokens, c.nextTokenId,
                                  c.nextFamily, mbId, Null, t)
        c6 == [c5 EXCEPT
                 !.refreshTokens = g.rows,
                 !.nextTokenId = g.nextId,
                 !.nextFamily = g.nextFamily,
                 !.issued = Append(@, [token |-> g.token,
                                       lineage |-> c.nextTokenId,
                                       parent |-> Null,
                                       familyId |-> g.familyId]),
                 !.browser = cookiesSet(@, "refresh_token",
                                        tokenCookie(g.token), "")]
        target == [path |-> IF stateData.redirect = "" THEN "/"
                            ELSE stateData.redirect]
    IN IF env.throwAt = "upsertSocialProfile" THEN Raise(c1, env.thrown)
       ELSE IF env.throwAt = "updateLoginTimestamp" THEN Raise(c2, env.thrown)
       ELSE IF env.throwAt = "createSession" THEN Raise(c3, env.thrown)
       ELSE IF route = "auth" THEN Raise(c4, Redirect(302, target))
       ELSE IF env.throwAt = "generateRefreshToken" THEN Raise(c5, env.thrown)
       ELSE Raise(c6, Redirect(302, target))

(* lines 96-125: no member: the profile is staged for the register page *)
callbackPending(providerName, stateData, profile, c) ==
    Raise([Step(c, "cookies.set(pending_social_register)") EXCEPT
             !.browser = cookiesSet(@, "pending_social_register",
                 JSONstringify([provider |-> providerName,
                                identifier |-> profile.identifier,
                                email |-> profile.email,
                                displayName |-> profile.displayName,
                                photoUrl |-> profile.photoUrl,
                                profileUrl |-> profile.profileUrl]), "")],
          Redirect(302, [path |-> "/register", provider |-> providerName,
                         email |-> profile.email,
                         redirect |-> stateData.redirect]))

(* lines 127-131, then the login *)
callbackMember_skipsActiveCheck(route, stateData, mbId, env, c, t) ==
    LET c1 == [Step(c, "getMemberById") EXCEPT !.mbId = Some(mbId)]
    IN IF env.throwAt = "getMemberById" THEN Raise(c1, env.thrown)
       ELSE IF env.member = "missing"
       THEN Raise(c1, Redirect(302, LoginError("account_inactive")))
       ELSE callbackLogin(route, stateData, mbId, env, c1, t)

callbackMember(route, stateData, mbId, env, c, t) ==
    LET c1 == [Step(c, "getMemberById") EXCEPT !.mbId = Some(mbId)]
    IN IF env.throwAt = "getMemberById" THEN Raise(c1, env.thrown)
       ELSE IF env.member # "active"
       THEN Raise(c1, Redirect(302, LoginError("account_inactive")))
       ELSE callbackLogin(route, stateData, mbId, env, c1, t)

(* lines 82-94: the member of the profile *)
callbackResolve_emailFirst(route, providerName, stateData, profile, env, c, t) ==
    LET c1 == Step(c, "findSocialProfile")
        c2 == IF profile.email # "" THEN Step(c1, "findMemberByEmail")
              ELSE c1
    IN IF env.throwAt = "findSocialProfile" THEN Raise(c1, env.thrown)
       ELSE IF profile.email # "" /\ env.throwAt = "findMemberByEmail"
       THEN Raise(c2, env.thrown)
       ELSE IF profile.email # "" /\ env.byEmail # Null
       THEN callbackMember(route, stateData, Val(env.byEmail), env, c2, t)
       ELSE IF env.link # Null /\ Val(env.link).mb_id # ""
       THEN callbackMember(route, stateData, Val(env.link).mb_id, env, c2, t)
       ELSE callbackPending(providerName, stateData, profile, c2)

callbackResolve(route, providerName, stateData, profile, env, c, t) ==
    LET c1 == Step(c, "findSocialProfile")
        c2 == Step(c1, "findMemberByEmail")
    IN IF env.throwAt = "findSocialProfile" THEN Raise(c1, env.thrown)
       ELSE IF env.link # Null /\ Val(env.link).mb_id # ""
       THEN callbackMember(route, stateData, Val(env.link).mb_id, env, c1, t)
       ELSE IF profile.email = ""
       THEN callbackPending(providerName, stateData, profile, c1)
       ELSE IF env.throwAt = "findMemberByEmail" THEN Raise(c2, env.thrown)
       ELSE IF env.byEmail = Null
       THEN callbackPending(providerName, stateData, profile, c2)
       ELSE callbackMember(route, stateData, Val(env.byEmail), env, c2, t)

(* the try block of handleCallback, lines 55-164. The plugin route deletes
   oauth_pkce without the domain option. *)
handleCallbackTry_profileFirst(route, providerName, stateData, env, c, cd, t) ==
    LET c1 == Step(c, "getProvider")
        c2 == IF IsTwitterProvider(providerName)
              THEN [Step(Step(c1, "cookies.get(oauth_pkce)"),
                         "cookies.delete(oauth_pkce)") EXCEPT
                      !.browser = cookiesDelete(@, "oauth_pkce",
                                      IF route = "auth" THEN cd ELSE "")]
              ELSE c1
        c3 == Step(c2, "getUserProfile")
        c4 == Step(c3, "exchangeCode")
    IN IF env.throwAt = "getProvider" THEN Raise(c1, env.thrown)
       ELSE IF env.throwAt = "getUserProfile" THEN Raise(c3, env.thrown)
       ELSE IF env.throwAt = "exchangeCode" THEN Raise(c4, env.thrown)
       ELSE callbackResolve(route, providerName, stateData, env.profile,
                            env, c4, t)

handleCallbackTry(route, providerName, stateData, env, c, cd, t) ==
    LET c1 == Step(c, "getProvider")
        c2 == IF IsTwitterProvider(providerName)
              THEN [Step(Step(c1, "cookies.get(oauth_pkce)"),
                         "cookies.delete(oauth_pkce)") EXCEPT
                      !.browser = cookiesDelete(@, "oauth_pkce",
                                      IF route = "auth" THEN cd ELSE "")]
              ELSE c1
        c3 == Step(c2, "exchangeCode")
        c4 == Step(c3, "getUserProfile")
    IN IF env.throwAt = "getProvider" THEN Raise(c1, env.thrown)
       ELSE IF env.throwAt = "exchangeCode" THEN Raise(c3, env.thrown)
       ELSE IF env.throwAt = "getUserProfile" THEN Raise(c4, env.thrown)
       ELSE callbackResolve(route, providerName, stateData, env.profile,
                            env, c4, t)

(* the catch block of handleCallback, lines 165-176 *)
handleCallbackCatch_translatesAll(err) ==
    Thrown(Redirect(302, LoginError("oauth_error")))

handleCallbackCatch(err) ==
    IF HasStatus(err) THEN Thrown(err)
    ELSE Thrown(Redirect(302, LoginError("oauth_error")))

(* handleCallback; providerParam is the path parameter (route "auth") or
   the hauth.done parameter (route "plugin", Null when it is absent) *)
handleCallback_noProviderCheck(route, providerParam, stateParam, env, c, cd, t) ==
    LET providerName == IF providerParam = Null THEN Null
                        ELSE normalizeProviderName(Val(providerParam))
        v == validateOAuthState(CookieValue(c.cookieJar), stateParam, t)
        c1 == [Step(c, "validateOAuthState") EXCEPT
                 !.cookieJar = IF v.delete THEN Null ELSE @,
                 !.stateData = v.ret]
    IN IF providerName = Null
       THEN Finish(c, Thrown(Redirect(302, LoginError("invalid_provider"))))
       ELSE IF v.ret = Null
       THEN Finish(c1, Thrown(Redirect(302, LoginError("invalid_state"))))
       ELSE LET r == handleCallbackTry(route, Val(providerName), Val(v.ret),
                                       env, c1, cd, t)
            IN Finish(r, handleCallbackCatch(Val(r.raised)))

handleCallback(route, providerParam, stateParam, env, c, cd, t) ==
    LET providerName == IF providerParam = Null THEN Null
                        ELSE normalizeProviderName(Val(providerParam))
        v == validateOAuthState(CookieValue(c.cookieJar), stateParam, t)
        c1 == [Step(c, "validateOAuthState") EXCEPT
                 !.cookieJar = IF v.delete THEN Null ELSE @,
                 !.stateData = v.ret]
    IN IF providerName = Null
       THEN Finish(c, Thrown(Redirect(302, LoginError("invalid_provider"))))
       ELSE IF v.ret = Null
       THEN Finish(c1, Thrown(Redirect(302, LoginError("invalid_state"))))
       ELSE IF Val(v.ret).provider # Val(providerName)
       THEN Finish(c1, Thrown(Redirect(302, LoginError("provider_mismatch"))))
       ELSE LET r == handleCallbackTry(route, Val(providerName), Val(v.ret),
                                       env, c1, cd, t)
            IN Finish(r, handleCallbackCatch(Val(r.raised)))

(* `provider_${errorParam}` on the error codes a provider sends *)
ProviderError(errorParam) ==
    IF errorParam = "access_denied" THEN "provider_access_denied"
    ELSE "provider_server_error"

(* GET and POST of the callback route: method "POST" reads the form first.
   code, stateParam and errorParam are Null when the request has none. *)
callbackRequest(method, route, providerParam, code, stateParam, errorParam, env, c, cd, t) ==
    LET c1 == IF method = "POST" THEN Step(c, "request.formData") ELSE c
        c2 == Step(c1, "getClientAddress")
    IN IF method = "POST" /\ env.throwAt = "request.formData"
       THEN Finish(c1, Thrown(env.thrown))
       ELSE IF errorParam # Null
       THEN Finish(c1, Thrown(Redirect(302,
                LoginError(ProviderError(Val(errorParam))))))
       ELSE IF code = Null \/ stateParam = Null
       THEN Finish(c1, Thrown(Redirect(302, LoginError("missing_params"))))
       ELSE IF env.throwAt = "getClientAddress"
       THEN Finish(c2, Thrown(env.thrown))
       ELSE handleCallback(route, providerParam, Val(stateParam), env, c2,
                           cd, t)

---------------------------------------------------------------------------
(* routes/register/+page.server.ts: the default action of the register
   page. A form is [agreeTerms, agreePrivacy, redirect]; the environment of
   a request names the call that throws (throwAt) and what the checks
   answer (rateAllowed, captchaValid, nicknameValid, taken, member). *)

generateSocialMbId(provider, identifier) == provider \o "_" \o identifier

fail(status) == Responded(status)

(* lines 135-206: the body of the try block *)
registerTry_deletesCookieFirst(socialProfile, mbId, redirectUrl, env, c, t) ==
    LET c1 == Step([Step(c, "cookies.delete(pending_social_register)") EXCEPT
                      !.browser = cookiesDelete(@, "pending_social_register",
                                                "")],
                   "createMember")
        c2 == Step(c1, "upsertSocialProfile")
        c3 == Step(c2, "updateLoginTimestamp")
        c4 == [Step(c3, "getMemberById") EXCEPT !.mbId = Some(mbId)]
        c5 == Step(c4, "createSession")
        s == createSession(c.sessions, c.nextSession, mbId, t)
        c6 == [c5 EXCEPT
                 !.sessions = s.rows,
                 !.nextSession = @ + 1,
                 !.created = Append(@, [sessionId |-> s.ret.sessionId,
                                        csrfToken |-> s.ret.csrfToken,
                                        mbId |-> mbId]),
                 !.browser = cookiesSet(
                     cookiesSet(@, SESSION_COOKIE_NAME, s.ret.sessionId, ""),
                     CSRF_COOKIE_NAME, s.ret.csrfToken, "")]
        c7 == Step(c6, "generateRefreshToken")
        g == generateRefreshToken(c.refreshTokens, c.nextTokenId,
                                  c.nextFamily, mbId, Null, t)
        c8 == [c7 EXCEPT
                 !.refreshTokens = g.rows,
                 !.nextTokenId = g.nextId,
                 !.nextFamily = g.nextFamily,
                 !.issued = Append(@, [token |-> g.token,
                                       lineage |-> c.nextTokenId,
                                       parent |-> Null,
                                       familyId |-> g.familyId]),
                 !.browser = cookiesSet(@, "refresh_token",
                                        tokenCookie(g.token), "")]
    IN IF env.throwAt = "createMember" THEN Raise(c1, env.thrown)
       ELSE IF env.throwAt = "upsertSocialProfile" THEN Raise(c2, env.thrown)
       ELSE IF env.throwAt = "updateLoginTimestamp" THEN Raise(c3, env.thrown)
       ELSE IF env.throwAt = "getMemberById" THEN Raise(c4, env.thrown)
       ELSE IF env.member = "missing" THEN Finish(c4, fail(500))
       ELSE IF env.throwAt = "createSession" THEN Raise(c5, env.thrown)
       ELSE IF env.throwAt = "generateRefreshToken" THEN Raise(c7, env.thrown)
       ELSE Raise(c8, Redirect(302, [path |-> redirectUrl]))

registerTry(socialProfile, mbId, redirectUrl, env, c, t) ==
    LET c1 == Step(c, "createMember")
        c2 == Step(c1, "upsertSocialProfile")
        c3 == Step(c2, "updateLoginTimestamp")
        c4 == [Step(c3, "getMemberById") EXCEPT !.mbId = Some(mbId)]
        c5 == Step(c4, "createSession")
        s == createSession(c.sessions, c.nextSession, mbId, t)
        c6 == [c5 EXCEPT
                 !.sessions = s.rows,
                 !.nextSession = @ + 1,
                 !.created = Append(@, [sessionId |-> s.ret.sessionId,
                                        csrfToken |-> s.ret.csrfToken,
                                        mbId |-> mbId]),
                 !.browser = cookiesSet(
                     cookiesSet(@, SESSION_COOKIE_NAME, s.ret.sessionId, ""),
                     CSRF_COOKIE_NAME, s.ret.csrfToken, "")]
        c7 == Step(c6, "generateRefreshToken")
        g == generateRefreshToken(c.refreshTokens, c.nextTokenId,
                                  c.nextFamily, mbId, Null, t)
        c8 == [Step(c7, "cookies.delete(pending_social_register)") EXCEPT
                 !.refreshTokens = g.rows,
                 !.nextTokenId = g.nextId,
                 !.nextFamily = g.nextFamily,
                 !.issued = Append(@, [token |-> g.token,
                                       lineage |-> c.nextTokenId,
                                       parent |-> Null,
                                       familyId |-> g.familyId]),
                 !.browser = cookiesDelete(
                     cookiesSet(@, "refresh_token", tokenCookie(g.token), ""),
                     "pending_social_register", "")]
    IN IF env.throwAt = "createMember" THEN Raise(c1, env.thrown)
       ELSE IF env.throwAt = "upsertSocialProfile" THEN Raise(c2, env.thrown)
       ELSE IF env.throwAt = "updateLoginTimestamp" THEN Raise(c3, env.thrown)
       ELSE IF env.throwAt = "getMemberById" THEN Raise(c4, env.thrown)
       ELSE IF env.member = "missing" THEN Finish(c4, fail(500))
       ELSE IF env.throwAt = "createSession" THEN Raise(c5, env.thrown)
       ELSE IF env.throwAt = "generateRefreshToken" THEN Raise(c7, env.thrown)
       ELSE Raise(c8, Redirect(302, [path |-> redirectUrl]))

(* lines 207-218: the catch block *)
registerCatch(err) ==
    IF HasStatus(err) THEN Thrown(err) ELSE fail(500)

(* lines 56-219 *)
registerAction(form, env, c, t) ==
    LET c1 == Step(c, "getClientAddress")
        c2 == Step(c1, "request.formData")
        redirectUrl == IF form.redirect = "" THEN "/" ELSE form.redirect
        c3 == Step(c2, "checkRateLimit")
        c4 == Step(c3, "verifyTurnstile")
        c5 == Step(c4, "cookies.get(pending_social_register)")
        pendingData == cookiesGet(c.browser, "pending_social_register")
        parsed == IF pendingData = {Null} THEN Null
                  ELSE JSONparse(Val(CHOOSE v \in pendingData : v # Null))
        c6 == Step(c5, "validateNickname")
        c7 == Step(c6, "isMbIdTaken")
        generated == generateSocialMbId(Val(parsed).provider,
                                        Val(parsed).identifier)
        mbId == IF env.taken THEN generated \o "_" \o "rand" ELSE generated
        body == registerTry(Val(parsed), mbId, redirectUrl, env, c7, t)
    IN IF env.throwAt = "getClientAddress"
       THEN Finish(c1, Thrown(env.thrown))
       ELSE IF env.throwAt = "request.formData"
       THEN Finish(c2, Thrown(env.thrown))
       ELSE IF ~env.rateAllowed THEN Finish(c3, fail(429))
       ELSE IF env.throwAt = "verifyTurnstile"
       THEN Finish(c4, Thrown(env.thrown))
       ELSE IF ~env.captchaValid THEN Finish(c4, fail(400))
       ELSE IF parsed = Null THEN Finish(c5, fail(400))
       ELSE IF ~form.agreeTerms \/ ~form.agreePrivacy
       THEN Finish(c5, fail(400))
       ELSE IF env.throwAt = "validateNickname"
       THEN Finish(c6, Thrown(env.thrown))
       ELSE IF ~env.nicknameValid THEN Finish(c6, fail(400))
       ELSE IF env.throwAt = "isMbIdTaken"
       THEN Finish(c7, Thrown(env.thrown))
       ELSE IF body.outcome # Null THEN body
       ELSE Finish(body, registerCatch(Val(body.raised)))

---------------------------------------------------------------------------
(* hooks.server.ts: every request passes through handle. A pathname is a
   sequence of pieces of text, cut where a prefix the code tests for ends:
   <<"/api/v2/", "posts">> is "/api/v2/posts". *)

CSRF_METHODS == {"POST", "PUT", "PATCH", "DELETE"}

CSRF_EXEMPT_PATHS ==
    {<<"/plugin/social/">>, <<"/api/v2/">>, <<"/api/auth/login">>,
     <<"/api/auth/logout">>}

RATE_LIMITED_PATHS ==
    {<<"/api/v2/", "auth/login">>, <<"/plugin/social/", "start">>,
     <<"/api/auth/logout">>}

startsWith(str, prefix) ==
    Len(prefix) <= Len(str) /\ SubSeq(str, 1, Len(prefix)) = prefix

NoLocals ==
    [user |-> Null, accessToken |-> Null, sessionId |-> Null,
     csrfToken |-> Null]

(* jwt.ts, generateAccessToken: the claims of the signed token *)
generateAccessToken(user, t) ==
    [type |-> "access", sub |-> user.mb_id, nickname |-> user.mb_nick,
     level |-> user.mb_level, email |-> user.mb_email, iat |-> t,
     exp |-> t + ACCESS_TOKEN_TTL, iss |-> "angple", key |-> JWT_SECRET]

(* lines 80-92: without a session the JWT cookies left in the browser are
   deleted, with the domain option *)
cleanupStaleCookies(c, cd) ==
    LET names == {n \in {"refresh_token", "damoang_jwt", "access_token"} :
                    HasCookie(c.browser, n)}
    IN [c EXCEPT !.browser = {x \in @ : ~(x.name \in names /\ x.domain = cd)},
                 !.trace = IF names = {} THEN @
                           ELSE Append(@, "cookies.delete(stale)")]

(* lines 49-93. The environment of the request: throwAt is the call that
   throws, member is the row getMemberById returns. *)
authenticateSSR_propagates(sidCookie, env, c, cd, t) ==
    LET c0 == [c EXCEPT !.locals = NoLocals]
        c1 == Step(c0, "getSession")
        g == getSession(c.sessions, Val(sidCookie), t)
        member == Val(env.member)
        c3 == [Step(Step(c1, "getMemberById"), "generateAccessToken") EXCEPT
                 !.sessions = g.rows,
                 !.locals = [user |-> Some([nickname |-> member.mb_nick,
                                            level |-> member.mb_level]),
                             accessToken |->
                                 Some(generateAccessToken(member, t)),
                             sessionId |-> sidCookie,
                             csrfToken |-> Some(Val(g.ret).csrfToken)]]
    IN IF sidCookie = Null THEN cleanupStaleCookies(c0, cd)
       ELSE IF env.throwAt \in {"getSession", "getMemberById",
                                "generateAccessToken"}
       THEN Finish(c1, Thrown(env.thrown))
       ELSE IF g.ret = Null \/ env.member = Null
       THEN cleanupStaleCookies([c1 EXCEPT !.sessions = g.rows], cd)
       ELSE c3

authenticateSSR(sidCookie, env, c, cd, t) ==
    LET c0 == [c EXCEPT !.locals = NoLocals]
        c1 == Step(c0, "getSession")
        g == getSession(c.sessions, Val(sidCookie), t)
        c2 == [Step(c1, "getMemberById") EXCEPT !.sessions = g.rows]
        member == Val(env.member)
        c3 == [Step(c2, "generateAccessToken") EXCEPT
                 !.locals = [user |-> Some([nickname |->
                                               IF member.mb_nick # ""
                                               THEN member.mb_nick
                                               ELSE member.mb_name,
                                            level |-> member.mb_level]),
                             accessToken |-> Null,
                             sessionId |-> sidCookie,
                             csrfToken |-> Some(Val(g.ret).csrfToken)]]
        c4 == [c3 EXCEPT !.locals.accessToken =
                             Some(generateAccessToken(member, t))]
    IN IF sidCookie = Null THEN cleanupStaleCookies(c0, cd)
       ELSE IF env.throwAt = "getSession" THEN cleanupStaleCookies(c1, cd)
       ELSE IF g.ret = Null
       THEN cleanupStaleCookies([c1 EXCEPT !.sessions = g.rows], cd)
       ELSE IF env.throwAt = "getMemberById" \/ env.member = Null
       THEN cleanupStaleCookies(c2, cd)
       ELSE IF env.throwAt = "generateAccessToken"
       THEN cleanupStaleCookies(c3, cd)
       ELSE c4

(* lines 166-179: the CSRF check of a request bound to a session *)
csrfRejects_prefixMatch(method, pathname, csrfHeader, locals) ==
    /\ locals.sessionId # Null
    /\ method \in CSRF_METHODS
    /\ ~\E p \in CSRF_EXEMPT_PATHS : startsWith(pathname, p)
    /\ \/ csrfHeader = Null
       \/ ~startsWith(Val(csrfHeader), Val(locals.csrfToken))

csrfRejects(method, pathname, csrfHeader, locals) ==
    /\ locals.sessionId # Null
    /\ method \in CSRF_METHODS
    /\ ~\E p \in CSRF_EXEMPT_PATHS : startsWith(pathname, p)
    /\ csrfHeader # locals.csrfToken

(* lines 122-221; resolve(event) is the downstream handler *)
handle(method, pathname, csrfHeader, sidCookie, env, c, cd, t) ==
    LET limited == \E r \in RATE_LIMITED_PATHS : startsWith(pathname, r)
        c1 == IF limited THEN Step(c, "checkRateLimit") ELSE c
        a == authenticateSSR(sidCookie, env, Step(c1, "authenticateSSR"),
                             cd, t)
    IN IF startsWith(pathname, <<"/bbs/">>) /\ env.mapped
       THEN Finish(c, Thrown(Redirect(301, [path |-> "mapped"])))
       ELSE IF limited /\ env.throwAt = "getClientAddress"
       THEN Finish(c, Thrown(env.thrown))
       ELSE IF limited /\ ~env.rateAllowed THEN Finish(c1, Responded(429))
       ELSE IF a.outcome # Null THEN a
       ELSE IF csrfRejects(method, pathname, csrfHeader, a.locals)
       THEN Finish(a, Responded(403))
       ELSE IF method = "OPTIONS" THEN Finish(a, Responded(200))
       ELSE Finish(Step(a, "resolve"), Responded(200))

---------------------------------------------------------------------------
(* POST /api/auth/logout (the second file of part_002). The environment
   says which of the three calls fail. *)

logoutPOST(sidCookie, refreshCookie, env, c, cd, t) ==
    LET c1 == IF sidCookie = Null THEN c
              ELSE [Step(c, "destroySession") EXCEPT
                      !.sessions = IF env.destroyFails THEN @
                                   ELSE destroySession(@, Val(sidCookie))]
        c2 == IF refreshCookie = Null THEN c1
              ELSE [Step(Step(c1, "revokeToken"), "fetch(backend logout)")
                    EXCEPT
                      !.refreshTokens =
                          IF env.revokeFails THEN @
                          ELSE revokeToken(@,
                                 hashToken(cookieToken(Val(refreshCookie))),
                                 t)]
        deleted == {SESSION_COOKIE_NAME, CSRF_COOKIE_NAME, "refresh_token",
                    "damoang_jwt", "access_token"}
        c3 == [Step(c2, "cookies.delete(auth cookies)") EXCEPT
                 !.browser = {x \in @ : ~(x.name \in deleted
                                            /\ x.domain = cd)}]
    IN Finish(c3, Responded(200))

---------------------------------------------------------------------------
(* POST /api/auth/login (the first file of part_002). The environment of a
   request:
     throwAt        the call that throws
     rateAllowed    what checkRateLimit answers
     backendStatus  the status of the backend's answer
     userId         result.data.user.user_id, Null when the answer has none
     backendCookie  the value of refresh_token in the Set-Cookie headers of
                    the backend's answer, Null when there is none *)

(* a refresh token the Go backend has signed *)
BackendRefreshToken(mbId, t) ==
    [sub |-> mbId, iat |-> t, exp |-> t + REFRESH_TOKEN_TTL_MS,
     iss |-> "backend", key |-> JWT_SECRET]

(* lines 81-145: the login, once the backend has accepted the credentials *)
loginSession(mbId, env, c, cd, t) ==
    LET c1 == Step(c, "createSession")
        s == createSession(c.sessions, c.nextSession, mbId, t)
        c2 == [c1 EXCEPT
                 !.sessions = s.rows,
                 !.nextSession = @ + 1,
                 !.created = Append(@, [sessionId |-> s.ret.sessionId,
                                        csrfToken |-> s.ret.csrfToken,
                                        mbId |-> mbId]),
                 !.browser = cookiesSet(
                     cookiesSet(@, SESSION_COOKIE_NAME, s.ret.sessionId, cd),
                     CSRF_COOKIE_NAME, s.ret.csrfToken, cd)]
        c3 == Step(c2, "generateRefreshToken")
        g == generateRefreshToken(c.refreshTokens, c.nextTokenId,
                                  c.nextFamily, mbId, Null, t)
        c4 == [c3 EXCEPT
                 !.refreshTokens = g.rows,
                 !.nextTokenId = g.nextId,
                 !.nextFamily = g.nextFamily,
                 !.issued = Append(@, [token |-> g.token,
                                       lineage |-> c.nextTokenId,
                                       parent |-> Null,
                                       familyId |-> g.familyId]),
                 !.browser = cookiesSet(@, "refresh_token",
                                        tokenCookie(g.token), cd)]
        c5 == IF env.backendCookie = Null THEN c4
              ELSE [Step(c4, "cookies.set(backend refresh_token)") EXCEPT
                      !.browser = cookiesSet(@, "refresh_token",
                                             Val(env.backendCookie), cd)]
    IN IF env.throwAt = "createSession" THEN Raise(c1, env.thrown)
       ELSE IF env.throwAt = "generateRefreshToken"
       THEN Raise(c3, env.thrown)
       ELSE Finish(c5, Responded(200))

(* lines 24-150; credentials tells whether the body has a username and a
   password *)
loginPOST(credentials, env, c, cd, t) ==
    LET c1 == Step(c, "getClientAddress")
        c2 == Step(c1, "checkRateLimit")
        c3 == Step(c2, "request.json")
        c4 == Step(c3, "fetch(backend login)")
        body == loginSession(Val(env.userId), env, c4, cd, t)
    IN IF env.throwAt = "getClientAddress"
       THEN Finish(c1, Thrown(env.thrown))
       ELSE IF ~env.rateAllowed THEN Finish(c2, Responded(429))
       ELSE IF env.throwAt = "request.json"
       THEN Finish(c3, Thrown(env.thrown))
       ELSE IF ~credentials THEN Finish(c3, Responded(400))
       ELSE IF env.throwAt = "fetch(backend login)"
       THEN Finish(Raise(c4, env.thrown), Responded(502))
       ELSE IF env.backendStatus # 200
       THEN Finish(c4, Responded(env.backendStatus))
       ELSE IF env.userId = Null THEN Finish(c4, Responded(500))
       ELSE IF body.outcome # Null THEN body
       ELSE Finish(body, Responded(502))

---------------------------------------------------------------------------
(* The login flow as a state machine: the browser starts a login, the
   provider sends it back to a callback route. All requests of a flow are
   served at one instant of the clock, one after the other: last is the
   request that is being answered, and the next request is served once
   the response has been sent. *)

(* the number of requests of a behaviour of the login flow *)
MaxRequests == 4

StartProviders == {"naver", "Twitter"}
ProviderParams == {Some("naver"), Some("Twitter"), Some("bogus")}

(* the profiles getUserProfile returns; an adapter gives the identifier ""
   to a payload without an identifier (part_003, line 313) *)
Profiles ==
    {[identifier |-> i, email |-> e, displayName |-> "Kim",
      photoUrl |-> "", profileUrl |-> ""] :
        i \in {"id1", ""}, e \in {"", "a@x"}}

NoEmailProfile ==
    CHOOSE p \in Profiles : p.email = "" /\ p.identifier = "id1"

EarlySteps ==
    {"request.formData", "getClientAddress", "getProvider", "exchangeCode",
     "getUserProfile", "findSocialProfile"}
LoginSteps ==
    {"upsertSocialProfile", "updateLoginTimestamp", "createSession",
     "generateRefreshToken"}

DefaultEnv ==
    [throwAt |-> "none", thrown |-> PlainError, profile |-> NoEmailProfile,
     link |-> Null, byEmail |-> Null, member |-> "missing"]

(* An environment is listed once: what the handler does not read has its
   default value. *)
CanonicalEnv(e) ==
    LET early == e.throwAt \in EarlySteps
        linked == e.link # Null /\ Val(e.link).mb_id # ""
        asksEmail == ~early /\ ~linked /\ e.profile.email # ""
        resolved == ~early /\ (linked \/ (asksEmail /\ e.byEmail # Null))
        loggedIn == resolved /\ e.member = "active"
    IN /\ early => (e.profile = NoEmailProfile /\ e.link = Null)
       /\ ~asksEmail => e.byEmail = Null
       /\ e.throwAt = "findMemberByEmail" => (asksEmail /\ e.byEmail = Null)
       /\ ~resolved => e.member = "missing"
       /\ e.throwAt = "getMemberById" => (resolved /\ e.member = "missing")
       /\ e.throwAt \in LoginSteps => loggedIn

CallbackEnvs ==
    {e \in [throwAt : {"none", "findMemberByEmail", "getMemberById"}
                          \cup EarlySteps \cup LoginSteps,
            thrown : {PlainError},
            profile : Profiles,
            link : {Null, Some([mb_id |-> ""]), Some([mb_id |-> "u1"])},
            byEmail : {Null, Some("u2")},
            member : {"missing", "inactive", "active"}] : CanonicalEnv(e)}

(* the environments of a request that ends before it asks the provider:
   only a call that the request reaches can throw *)
GateEnvs(method, params) ==
    {DefaultEnv}
    \cup (IF method = "POST"
          THEN {[DefaultEnv EXCEPT !.throwAt = "request.formData"]}
          ELSE {})
    \cup (IF params.error = Null /\ params.code # Null
             /\ params.state # Null
          THEN {[DefaultEnv EXCEPT !.throwAt = "getClientAddress"]}
          ELSE {})

StartEnvs ==
    {[DefaultEnv EXCEPT !.throwAt = s] :
        s \in {"none", "getProvider", "getAuthorizationUrl"}}

(* the query or form parameters of a callback request *)
CallbackParams ==
    {[code |-> Some("code"), state |-> Some(st), error |-> Null] :
        st \in PresentedStates}
    \cup {[code |-> Null, state |-> Some(<<"state", 0>>), error |-> Null],
          [code |-> Some("code"), state |-> Null, error |-> Null],
          [code |-> Some("code"), state |-> Some(<<"state", 0>>),
           error |-> Some("access_denied")]}

(* redirect values that name a location of another origin *)
OffSiteUrls == {"https://other.example/"}

(* the redirect parameter of a start request *)
StartRedirects == {Null, Some("/free")} \cup {Some(u) : u \in OffSiteUrls}

InitLogin ==
    /\ now = 0
    /\ refreshTokens = {}
    /\ nextTokenId = 1
    /\ nextFamily = 0
    /\ issued = <<>>
    /\ sessions = {}
    /\ nextSession = 0
    /\ created = <<>>
    /\ cookieJar = Null
    /\ nextState = 0
    /\ consumed = {}
    /\ browser = {}
    /\ cookieDomain \in {"", ".damoang.net"}
    /\ served = 0
    /\ calls = {}
    /\ reuseDetected = {}
    /\ cachedKeys = Null
    /\ cacheTimestamp = 0
    /\ config = Some(1)
    /\ last = NoCall
    /\ prev = NoCall

(* what a handler has set in the browser: the names of the cookies that
   are new or have a new value *)
CookiesWritten(c) == {x.name : x \in c.browser \ browser}

OAuthStart(providerParam, redirectParam, env) ==
    /\ last = NoCall
    /\ served < MaxRequests
    /\ \E c \in {oauthStartGET(providerParam, redirectParam, env, Context,
                              cookieDomain, now)} :
          /\ Commit(c)
          /\ last' = [op |-> "oauthStart", providerParam |-> providerParam,
                      redirectParam |-> redirectParam,
                      outcome |-> Val(c.outcome), raised |-> c.raised,
                      trace |-> c.trace,
                      written |-> CookiesWritten(c),
                      stateSet |-> c.cookieJar # cookieJar]
    /\ prev' = NoCall
    /\ served' = served + 1
    /\ UNCHANGED <<cacheVars, now, consumed, cookieDomain, raceVars>>

(* the part of the environment the handler has read *)
EnvRead(env, c) ==
    [throwAt |-> IF c.raised = Some(env.thrown)
                     \/ c.outcome = Some(Thrown(env.thrown))
                 THEN env.throwAt ELSE "none",
     profile |-> IF Did(c, "findSocialProfile") THEN Some(env.profile)
                 ELSE Null,
     link |-> env.link, byEmail |-> env.byEmail, member |-> env.member]

Callback(method, route, providerParam, params, env) ==
    /\ last = NoCall
    /\ served < MaxRequests
    /\ method = "GET" => env.throwAt # "request.formData"
    /\ route = "auth" => env.throwAt # "generateRefreshToken"
    /\ \E c \in {callbackRequest(method, route, providerParam, params.code,
                                params.state, params.error, env, Context,
                                cookieDomain, now)} :
          /\ Commit(c)
          /\ consumed' = IF c.stateData # Null
                         THEN consumed \cup {Val(c.stateData).state}
                         ELSE consumed
          /\ last' = [op |-> "callback", method |-> method, route |-> route,
                      providerName |->
                          IF providerParam = Null THEN Null
                          ELSE normalizeProviderName(Val(providerParam)),
                      stateData |-> c.stateData, mbId |-> c.mbId,
                      env |-> EnvRead(env, c),
                      outcome |-> Val(c.outcome), raised |-> c.raised,
                      trace |-> c.trace,
                      written |-> CookiesWritten(c),
                      sessionCreated |-> c.sessions # sessions]
    /\ prev' = NoCall
    /\ served' = served + 1
    /\ UNCHANGED <<cacheVars, now, cookieDomain, raceVars>>

(* the request reaches the try block of handleCallback *)
PassesChecks(providerParam, params) ==
    /\ params.error = Null /\ params.code # Null /\ params.state # Null
    /\ providerParam # Null
    /\ normalizeProviderName(Val(providerParam)) # Null
    /\ LET v == validateOAuthState(CookieValue(cookieJar),
                                   Val(params.state), now)
       IN /\ v.ret # Null
          /\ Val(v.ret).provider
                = Val(normalizeProviderName(Val(providerParam)))

(* A callback request; the environment matters only once the request has
   passed the checks of its parameters and of the state. *)
CallbackArrives ==
    /\ last = NoCall
    /\ served < MaxRequests
    /\ \E method \in {"GET", "POST"}, route \in {"auth", "plugin"},
          providerParam \in ProviderParams \cup {Null},
          params \in CallbackParams :
           /\ providerParam = Null => route = "plugin"
           /\ \E env \in IF PassesChecks(providerParam, params)
                          THEN CallbackEnvs ELSE GateEnvs(method, params) :
                 Callback(method, route, providerParam, params, env)

(* the forms and the environments of the register action: every check
   fails in one environment, every call throws in one *)
RegisterForms ==
    {[agreeTerms |-> a, agreePrivacy |-> p, redirect |-> "/x"] :
        a, p \in BOOLEAN}
    \cup {[agreeTerms |-> TRUE, agreePrivacy |-> TRUE, redirect |-> u] :
             u \in {""} \cup OffSiteUrls}

RegisterSteps ==
    {"getClientAddress", "request.formData", "verifyTurnstile",
     "validateNickname", "isMbIdTaken", "createMember",
     "upsertSocialProfile", "updateLoginTimestamp", "getMemberById",
     "createSession", "generateRefreshToken"}

DefaultRegisterEnv ==
    [throwAt |-> "none", thrown |-> PlainError, rateAllowed |-> TRUE,
     captchaValid |-> TRUE, nicknameValid |-> TRUE, taken |-> FALSE,
     member |-> "active"]

RegisterEnvs ==
    {DefaultRegisterEnv,
     [DefaultRegisterEnv EXCEPT !.rateAllowed = FALSE],
     [DefaultRegisterEnv EXCEPT !.captchaValid = FALSE],
     [DefaultRegisterEnv EXCEPT !.nicknameValid = FALSE],
     [DefaultRegisterEnv EXCEPT !.taken = TRUE],
     [DefaultRegisterEnv EXCEPT !.member = "missing"]}
    \cup {[DefaultRegisterEnv EXCEPT !.throwAt = s] : s \in RegisterSteps}

(* lines 85-108: the profile the pending_social_register cookie holds, Null
   when the browser has no such cookie or when its value does not parse *)
PendingProfile(b) ==
    LET pendingData == cookiesGet(b, "pending_social_register")
    IN IF pendingData = {Null} THEN Null
       ELSE JSONparse(Val(CHOOSE v \in pendingData : v # Null))

Register(form, env) ==
    /\ last = NoCall
    /\ served < MaxRequests
    /\ \E c \in {registerAction(form, env, Context, now)} :
          /\ Commit(c)
          /\ last' = [op |-> "register", form |-> form, env |-> env,
                      pending |-> PendingProfile(browser),
                      mbId |-> c.mbId,
                      outcome |-> Val(c.outcome), raised |-> c.raised,
                      trace |-> c.trace,
                      written |-> CookiesWritten(c),
                      sessionCreated |-> c.sessions # sessions]
    /\ prev' = NoCall
    /\ served' = served + 1
    /\ UNCHANGED <<cacheVars, now, consumed, cookieDomain, raceVars>>

(* the member row of a member id, as getMemberById returns it *)
MemberRow(mbId) ==
    [mb_id |-> mbId, mb_nick |-> "nick", mb_name |-> "name",
     mb_level |-> 2, mb_email |-> "a@x"]

(* the member of a session id that createSession has returned *)
MemberOfSession(sessionId) ==
    IF \E k \in 1..Len(created) : created[k].sessionId = sessionId
    THEN Some(MemberRow(created[CHOOSE k \in 1..Len(created) :
                                   created[k].sessionId = sessionId].mbId))
    ELSE Null

DefaultHookEnv(sidCookie) ==
    [throwAt |-> "none", thrown |-> PlainError,
     member |-> IF sidCookie = Null THEN Null
                ELSE MemberOfSession(Val(sidCookie)),
     mapped |-> FALSE, rateAllowed |-> TRUE]

(* a page request of the browser: GET / with the session cookie it holds *)
PageRequest ==
    /\ last = NoCall
    /\ served < MaxRequests
    /\ \E sidCookie \in cookiesGet(browser, SESSION_COOKIE_NAME) :
        \E c \in {handle("GET", <<"/">>, Null, sidCookie,
                         DefaultHookEnv(sidCookie), Context, cookieDomain,
                         now)} :
          /\ Commit(c)
          /\ last' = [op |-> "request", sid |-> sidCookie,
                      locals |-> c.locals, outcome |-> Val(c.outcome),
                      raised |-> c.raised, trace |-> c.trace,
                      written |-> CookiesWritten(c),
                      sessionCreated |-> FALSE]
    /\ prev' = NoCall
    /\ served' = served + 1
    /\ UNCHANGED <<cacheVars, now, consumed, cookieDomain, raceVars>>

LogoutEnvs ==
    [destroyFails : BOOLEAN, revokeFails : BOOLEAN, backendFails : BOOLEAN]

(* POST /api/auth/logout with the cookies the browser holds *)
Logout(env) ==
    /\ last = NoCall
    /\ served < MaxRequests
    /\ \E sidCookie \in cookiesGet(browser, SESSION_COOKIE_NAME),
          refreshCookie \in cookiesGet(browser, "refresh_token") :
        /\ sidCookie = Null => ~env.destroyFails
        /\ refreshCookie = Null => (~env.revokeFails /\ ~env.backendFails)
        /\ \E c \in {logoutPOST(sidCookie, refreshCookie, env, Context,
                                cookieDomain, now)} :
              /\ Commit(c)
              /\ last' = [op |-> "logout", sid |-> sidCookie,
                          refresh |-> refreshCookie, env |-> env,
                          outcome |-> Val(c.outcome), raised |-> c.raised,
                          trace |-> c.trace,
                          written |-> CookiesWritten(c),
                          sessionCreated |-> FALSE]
    /\ served' = served + 1
    /\ UNCHANGED <<cacheVars, now, consumed, cookieDomain, raceVars, prev>>

(* the response of the request has been sent *)
ResponseSent ==
    /\ last # NoCall
    /\ last' = NoCall
    /\ UNCHANGED <<cacheVars, now, tokenVars, sessionVars, oauthVars,
                   webVars, raceVars,
                   prev>>

NextLogin ==
    \/ \E p \in {Some(x) : x \in StartProviders} \cup {Some("bogus"), Null},
          u \in StartRedirects,
          env \in StartEnvs : OAuthStart(p, u, env)
    \/ CallbackArrives
    \/ \E form \in RegisterForms, env \in RegisterEnvs : Register(form, env)
    \/ \E env \in LogoutEnvs : Logout(env)
    \/ PageRequest
    \/ ResponseSent

SpecLogin == InitLogin /\ [][NextLogin]_vars

---------------------------------------------------------------------------
(* The password login as a state machine: the browser logs in with a user
   name and a password and logs out. prev is the last login request. *)

DefaultLoginEnv ==
    [throwAt |-> "none", thrown |-> PlainError, rateAllowed |-> TRUE,
     backendStatus |-> 200, userId |-> Some("u1"), backendCookie |-> Null]

LoginEnvs ==
    {DefaultLoginEnv,
     [DefaultLoginEnv EXCEPT !.rateAllowed = FALSE],
     [DefaultLoginEnv EXCEPT !.backendStatus = 401],
     [DefaultLoginEnv EXCEPT !.userId = Null],
     [DefaultLoginEnv EXCEPT
        !.backendCookie =
            Some(tokenCookie(BackendRefreshToken("u1", now)))]}
    \cup {[DefaultLoginEnv EXCEPT !.throwAt = s] :
             s \in {"getClientAddress", "request.json",
                    "fetch(backend login)", "createSession",
                    "generateRefreshToken"}}

Login(credentials, env) ==
    /\ last = NoCall
    /\ served < MaxRequests
    /\ \E c \in {loginPOST(credentials, env, Context, cookieDomain, now)} :
          /\ Commit(c)
          /\ last' = [op |-> "login", credentials |-> credentials,
                      env |-> env,
                      outcome |-> Val(c.outcome), raised |-> c.raised,
                      trace |-> c.trace,
                      written |-> CookiesWritten(c),
                      sessionCreated |-> c.sessions # sessions,
                      stored |-> IF c.issued = issued THEN Null
                                 ELSE Some(c.issued[Len(c.issued)].token)]
          /\ prev' = last'
    /\ served' = served + 1
    /\ UNCHANGED <<cacheVars, now, consumed, cookieDomain, raceVars>>

NextPassword ==
    \/ \E credentials \in BOOLEAN, env \in LoginEnvs :
          Login(credentials, env)
    \/ \E env \in LogoutEnvs : Logout(env)
    \/ last = NoCall /\ Tick(MaxTime)
    \/ ResponseSent

SpecPassword == InitLogin /\ [][NextPassword]_vars

---------------------------------------------------------------------------
(* The request gate as a state machine: sessions are created and destroyed
   and requests with any method, path, session cookie and x-csrf-token
   header pass through handle. The clock stands still: the expiry of a
   session is the session store's matter (SpecSessions); here a session
   cookie names a session that exists, one that was destroyed or none. *)

GateMethods == {"GET", "OPTIONS"} \cup CSRF_METHODS

GatePaths ==
    {<<"/free/write">>, <<"/api/v2/", "posts">>, <<"/plugin/social/">>,
     <<"/api/auth/login">>, <<"/api/auth/logout">>, <<"/bbs/", "board.php">>,
     getCallbackUrl("apple")}

(* the headers a request may carry: none, the CSRF token of a session, a
   longer text that starts with it, the token of no session *)
GateHeaders ==
    {Null, Some(generateCsrfToken(0))}
    \cup {Some(created[k].csrfToken) : k \in 1..Len(created)}
    \cup {Some(Append(created[k].csrfToken, "d")) : k \in 1..Len(created)}

(* the environments of a request: what the request does not reach has its
   default value *)
GateRequestEnvs(pathname, sidCookie) ==
    LET d == DefaultHookEnv(sidCookie)
        found == sidCookie # Null
                    /\ getSession(sessions, Val(sidCookie), now).ret # Null
    IN {d}
       \cup (IF startsWith(pathname, <<"/bbs/">>)
             THEN {[d EXCEPT !.mapped = TRUE]} ELSE {})
       \cup (IF \E r \in RATE_LIMITED_PATHS : startsWith(pathname, r)
             THEN {[d EXCEPT !.rateAllowed = FALSE],
                   [d EXCEPT !.throwAt = "getClientAddress"]}
             ELSE {})
       \cup (IF sidCookie # Null
             THEN {[d EXCEPT !.throwAt = "getSession"]} ELSE {})
       \cup (IF found
             THEN {[d EXCEPT !.throwAt = "getMemberById"],
                   [d EXCEPT !.throwAt = "generateAccessToken"],
                   [d EXCEPT !.member = Null]}
             ELSE {})

Request(method, pathname, csrfHeader, sidCookie, env) ==
    /\ last.op # "request"
    /\ \E c \in {handle(method, pathname, csrfHeader, sidCookie, env,
                        Context, cookieDomain, now)} :
          /\ Commit(c)
          /\ last' = [op |-> "request", method |-> method,
                      pathname |-> pathname, csrfHeader |-> csrfHeader,
                      sid |-> sidCookie,
                      session |-> IF sidCookie = Null THEN Null
                                  ELSE getSession(sessions, Val(sidCookie),
                                                  now).ret,
                      env |-> env,
                      locals |-> c.locals, outcome |-> Val(c.outcome),
                      trace |-> c.trace]
    /\ prev' = NoCall
    /\ UNCHANGED <<cacheVars, now, consumed, cookieDomain, served, raceVars>>

RequestArrives ==
    /\ last.op # "request"
    /\ \E method \in GateMethods, pathname \in GatePaths,
          csrfHeader \in GateHeaders,
          sidCookie \in {Null} \cup {Some(s) : s \in PresentedSessionIds} :
           \E env \in GateRequestEnvs(pathname, sidCookie) :
               Request(method, pathname, csrfHeader, sidCookie, env)

NextGate ==
    \/ last.op # "request" /\ \E m \in LoginMembers : CreateSession(m)
    \/ last.op # "request"
          /\ \E sid \in PresentedSessionIds : DestroySession(sid)
    \/ RequestArrives
    \/ ResponseSent

SpecGate == InitSessions /\ [][NextGate]_vars


---------------------------------------------------------------------------
(* Claims about the OAuth callback *)

LastDid(name) == \E k \in 1..Len(last.trace) : last.trace[k] = name

(* the position of the first occurrence of a step in the last trace
   (0 when the step was not taken), and the number of its occurrences *)
LastAt(name) ==
    IF LastDid(name)
    THEN CHOOSE k \in 1..Len(last.trace) :
            /\ last.trace[k] = name
            /\ \A j \in 1..(k - 1) : last.trace[j] # name
    ELSE 0

LastCount(name) ==
    Cardinality({k \in 1..Len(last.trace) : last.trace[k] = name})

(* C12: a callback for provider P with a state created for another
   provider Q fails with provider_mismatch although the state string
   matches: no code exchange, no profile fetch, no member lookup and no
   session creation take place. *)
C12_ProviderMismatchFails ==
    (last.op = "callback" /\ last.stateData # Null
        /\ Val(last.stateData).provider # Val(last.providerName)) =>
        /\ last.outcome
             = Thrown(Redirect(302, LoginError("provider_mismatch")))
        /\ \A step \in {"getProvider", "exchangeCode", "getUserProfile",
                        "findSocialProfile", "findMemberByEmail",
                        "getMemberById", "createSession"} : ~LastDid(step)
        /\ ~last.sessionCreated
        /\ last.written = {}

C12_Witness ==
    /\ last.op = "callback" /\ last.stateData # Null
    /\ Val(last.stateData).provider = "naver"
    /\ last.providerName = Some("twitter")
    /\ last.outcome = Thrown(Redirect(302, LoginError("provider_mismatch")))

(* C13: in a callback for the PKCE provider (Twitter) that has passed the
   state validation, the oauth_pkce cookie is read exactly once and deleted
   before the code exchange is attempted, and it is absent afterwards. *)
C13_PkceCookieConsumed ==
    (last.op = "callback" /\ last.stateData # Null
        /\ last.providerName = Some("twitter")
        /\ Val(last.stateData).provider = "twitter") =>
        /\ LastCount("cookies.get(oauth_pkce)") = 1
        /\ LastCount("cookies.delete(oauth_pkce)") = 1
        /\ LastDid("exchangeCode") =>
              /\ LastAt("cookies.get(oauth_pkce)") < LastAt("exchangeCode")
              /\ LastAt("cookies.delete(oauth_pkce)") < LastAt("exchangeCode")
        /\ ~HasCookie(browser, "oauth_pkce")

(* C14: the member of a profile is the one of its social profile link,
   found without a query by email; without a link, the member that has the
   profile's (non-empty) email; otherwise the full profile is staged as a
   pending registration and no session is created. *)
C14_ResolutionOrder ==
    (last.op = "callback" /\ last.env.profile # Null
        /\ last.env.throwAt \notin {"findSocialProfile",
                                    "findMemberByEmail"}) =>
        LET profile == Val(last.env.profile)
            linked == last.env.link # Null /\ Val(last.env.link).mb_id # ""
        IN IF linked
           THEN /\ last.mbId = Some(Val(last.env.link).mb_id)
                /\ ~LastDid("findMemberByEmail")
           ELSE IF profile.email # "" /\ last.env.byEmail # Null
           THEN /\ last.mbId = last.env.byEmail
                /\ LastDid("findMemberByEmail")
           ELSE /\ last.mbId = Null
                /\ profile.email = "" => ~LastDid("findMemberByEmail")
                /\ cookiesGet(browser, "pending_social_register")
                     = {Some(JSONstringify(
                          [provider |-> Val(last.providerName),
                           identifier |-> profile.identifier,
                           email |-> profile.email,
                           displayName |-> profile.displayName,
                           photoUrl |-> profile.photoUrl,
                           profileUrl |-> profile.profileUrl]))}
                /\ ~last.sessionCreated
                /\ ~LastDid("createSession")
                /\ last.outcome.value.kind = "Redirect"
                /\ last.outcome.value.location.path = "/register"

(* C14 witness: a profile that has a link and an email logs in the member
   of the link, and no member is asked for by email *)
C14_Witness ==
    /\ last.op = "callback" /\ last.env.profile # Null
    /\ Val(last.env.profile).email # ""
    /\ last.env.link = Some([mb_id |-> "u1"])
    /\ last.mbId = Some("u1")
    /\ last.sessionCreated
    /\ ~LastDid("findMemberByEmail")

(* C15: when the resolved member does not exist or is not active, the
   callback ends with account_inactive, creates no session and sets no
   session or CSRF cookie. *)
C15_InactiveMemberNoSession ==
    (last.op = "callback" /\ last.mbId # Null
        /\ last.env.throwAt # "getMemberById"
        /\ last.env.member # "active") =>
        /\ last.outcome
             = Thrown(Redirect(302, LoginError("account_inactive")))
        /\ ~last.sessionCreated
        /\ ~LastDid("createSession")
        /\ last.written \cap {SESSION_COOKIE_NAME, CSRF_COOKIE_NAME} = {}

C15_Witness ==
    /\ last.op = "callback" /\ last.mbId # Null
    /\ last.env.member = "inactive"
    /\ last.outcome = Thrown(Redirect(302, LoginError("account_inactive")))
    /\ ~last.sessionCreated

(* C19: every internal (non-redirect) exception raised while a callback
   request is handled is translated into a redirect to the login page with
   the reason oauth_error; none escapes the handler. *)
C19_NoExceptionEscapes ==
    (last.op = "callback" /\ last.env.throwAt # "none") =>
        last.outcome = Thrown(Redirect(302, LoginError("oauth_error")))

(* C18: a redirect raised inside the exception-translating block of the
   OAuth start handler, of the callback handler or of the register action
   leaves the handler as it was raised: it is never turned into an error
   response or into another redirect. *)
C18_RedirectRethrown ==
    (last.op \in {"oauthStart", "callback", "register"}
        /\ last.raised # Null
        /\ Val(last.raised).kind = "Redirect") =>
        last.outcome = Thrown(Val(last.raised))

(* C18 witness: the register action has raised its final redirect *)
C18_Witness ==
    /\ last.op = "register"
    /\ last.raised = Some(Redirect(302, [path |-> "/x"]))
    /\ last.outcome = Thrown(Redirect(302, [path |-> "/x"]))
    /\ last.sessionCreated

---------------------------------------------------------------------------
(* Claims about the request gate *)

IsCsrfExempt(pathname) ==
    \E p \in CSRF_EXEMPT_PATHS : startsWith(pathname, p)

(* C16: a request that carries a valid session, has the method POST, PUT,
   PATCH or DELETE and a path that is not exempt reaches the downstream
   handler only if its x-csrf-token header equals the csrfToken of the
   session; with another value or without the header it is answered 403
   and the handler is not invoked. *)
C16_CsrfGate ==
    (last.op = "request" /\ last.session # Null
        /\ last.method \in CSRF_METHODS
        /\ ~IsCsrfExempt(last.pathname)
        /\ last.csrfHeader # Some(Val(last.session).csrfToken)) =>
        /\ last.outcome = Responded(403)
        /\ ~LastDid("resolve")

(* C16, amended: the statement holds for the requests that authenticateSSR
   has bound to a session (the lookup of the session succeeded and the
   member of the session exists): such a request reaches the downstream
   handler if and only if its header equals the csrfToken of the session,
   and it is answered 403 otherwise. *)
C16_CsrfGateOfBoundRequest ==
    (last.op = "request" /\ last.locals # Null
        /\ last.locals.sessionId # Null
        /\ last.method \in CSRF_METHODS
        /\ ~IsCsrfExempt(last.pathname)) =>
        /\ last.session # Null
        /\ last.locals.csrfToken = Some(Val(last.session).csrfToken)
        /\ IF last.csrfHeader = Some(Val(last.session).csrfToken)
           THEN LastDid("resolve") /\ last.outcome # Responded(403)
           ELSE ~LastDid("resolve") /\ last.outcome = Responded(403)

(* C16 witness: a header that is longer than the token and starts with it
   is refused *)
C16_Witness ==
    /\ last.op = "request" /\ last.locals # Null
    /\ last.locals.sessionId # Null
    /\ last.method = "PATCH"
    /\ last.pathname = <<"/free/write">>
    /\ last.csrfHeader = Some(Append(Val(last.session).csrfToken, "d"))
    /\ last.outcome = Responded(403)

(* C17: when the lookup of the session fails with a storage error, the
   request is anonymous (user, sessionId, csrfToken and accessToken are
   null) and it is processed: it is not refused by the CSRF gate and no
   exception leaves handle. *)
C17_LookupFailureIsAnonymous ==
    (last.op = "request" /\ last.env.throwAt = "getSession"
        /\ LastDid("getSession")) =>
        /\ last.locals = NoLocals
        /\ last.outcome = Responded(200)
        /\ last.method # "OPTIONS" => LastDid("resolve")

C17_Witness ==
    /\ last.op = "request" /\ last.env.throwAt = "getSession"
    /\ last.session # Null
    /\ last.method = "POST" /\ last.csrfHeader = Null
    /\ last.pathname = <<"/free/write">>
    /\ last.locals = NoLocals
    /\ LastDid("resolve")

---------------------------------------------------------------------------
(* Claims about the logout *)

AuthCookieNames ==
    {SESSION_COOKIE_NAME, CSRF_COOKIE_NAME, "refresh_token", "damoang_jwt",
     "access_token"}

(* what a logout has done when its response is sent *)
LogoutDone ==
    /\ last.outcome = Responded(200)
    /\ (last.sid # Null /\ ~last.env.destroyFails) =>
          RowOf(Val(last.sid)) = Null
    /\ (last.refresh # Null /\ ~last.env.revokeFails) =>
          \A r \in refreshTokens :
              r.token_hash = hashToken(cookieToken(Val(last.refresh))) =>
                  r.revoked_at # Null
    /\ \A name \in AuthCookieNames : ~HasCookie(browser, name)

(* C20: a logout destroys the session of the session cookie and revokes
   the refresh token of the refresh_token cookie; whether these calls or
   the backend call fail or not, it deletes all authentication cookies and
   reports success; and once a logout has destroyed a session, getSession
   returns null for its session id ever after. *)
C20_LogoutEndsSession ==
    /\ [](last.op = "logout" => LogoutDone)
    /\ \A n \in 1..MaxRequests :
          []((last.op = "logout" /\ last.sid = Some(generateSessionId(n))
                 /\ ~last.env.destroyFails) =>
              [](getSession(sessions, generateSessionId(n), now).ret = Null))

---------------------------------------------------------------------------
(* Claims about the order of the checks of findValidToken *)

(* C27: findValidToken decides on the row its query returned, in the order
   not found, revoked, expired, valid: without a row it returns null and
   changes nothing; a revoked row, expired or not, makes it revoke the
   family of the row and return null; a row that is expired and not
   revoked makes it return null and change nothing; any other row makes it
   return the member id and the family id of the row and change nothing. *)
C27_CheckOrder ==
    last.op = "findValidToken" =>
        IF last.sel = Null THEN last.ret = Null /\ last.same
        ELSE IF Val(last.sel).revoked_at # Null
        THEN /\ last.ret = Null
             /\ \A r \in refreshTokens :
                   r.family_id = Val(last.sel).family_id =>
                       r.revoked_at # Null
        ELSE IF now > Val(last.sel).expires_at
        THEN last.ret = Null /\ last.same
        ELSE /\ last.ret = Some([mbId |-> Val(last.sel).mb_id,
                                 familyId |-> Val(last.sel).family_id])
             /\ last.same

(* C27 witness: a row that is revoked and expired has made the call revoke
   a row of its family that was still live *)
C27_Witness ==
    /\ last.op = "findValidToken"
    /\ last.sel # Null
    /\ Val(last.sel).revoked_at # Null
    /\ now > Val(last.sel).expires_at
    /\ ~last.same
    /\ last.ret = Null

---------------------------------------------------------------------------
(* Claims about the writes of getSession *)

(* C28: on a session that has not expired getSession does exactly one of
   three things: when the session has been idle for more than
   SESSION_REFRESH_THRESHOLD_MS it sets expires_at to the current time plus
   SESSION_MAX_AGE_MS and last_active_at to the current time; otherwise,
   when it has been idle for more than LAST_ACTIVE_WRITE_INTERVAL_MS, it
   sets last_active_at to the current time and leaves expires_at alone;
   otherwise it writes nothing. No other row and no other column changes. *)
C28_SlidingWindowWrites ==
    (last.op = "getSession" /\ last.pre # Null
        /\ ~(now > Val(last.pre).expires_at)) =>
        LET row == Val(last.pre)
            idle == now - row.last_active_at
        IN IF idle > SESSION_REFRESH_THRESHOLD_MS
           THEN sessions = (last.store \ {row}) \cup
                    {[row EXCEPT !.last_active_at = now,
                                 !.expires_at = now + SESSION_MAX_AGE_MS]}
           ELSE IF idle > LAST_ACTIVE_WRITE_INTERVAL_MS
           THEN sessions = (last.store \ {row}) \cup
                    {[row EXCEPT !.last_active_at = now]}
           ELSE sessions = last.store

(* C28 witness: a session idle for longer than the refresh threshold has
   had its expiry moved *)
C28_Witness ==
    /\ last.op = "getSession"
    /\ last.pre # Null
    /\ ~(now > Val(last.pre).expires_at)
    /\ now - Val(last.pre).last_active_at > SESSION_REFRESH_THRESHOLD_MS
    /\ RowOf(last.sessionId) # Null
    /\ Val(RowOf(last.sessionId)).expires_at = now + SESSION_MAX_AGE_MS
    /\ Val(RowOf(last.sessionId)).expires_at > Val(last.pre).expires_at

---------------------------------------------------------------------------
(* Claims about the order of the steps of a callback *)

(* the steps of a callback that call out of the handler *)
CallbackSteps ==
    {"validateOAuthState", "getProvider", "exchangeCode", "getUserProfile",
     "findSocialProfile", "findMemberByEmail", "getMemberById",
     "upsertSocialProfile", "updateLoginTimestamp", "createSession",
     "generateRefreshToken"}

(* the last callback has entered handleCallback *)
LastEntered ==
    /\ last.op = "callback"
    /\ LastDid("getClientAddress")
    /\ last.env.throwAt # "getClientAddress"

(* the reason of the step at which the last callback has failed, Null when
   no step has failed *)
LastFailure ==
    IF ~LastEntered THEN Null
    ELSE IF last.providerName = Null THEN Some("invalid_provider")
    ELSE IF last.stateData = Null THEN Some("invalid_state")
    ELSE IF Val(last.stateData).provider # Val(last.providerName)
    THEN Some("provider_mismatch")
    ELSE IF last.env.throwAt \in
                {"getProvider", "exchangeCode", "getUserProfile",
                 "findSocialProfile", "findMemberByEmail", "getMemberById"}
            /\ LastDid(last.env.throwAt)
    THEN Some("oauth_error")
    ELSE IF last.mbId # Null /\ last.env.member # "active"
    THEN Some("account_inactive")
    ELSE Null

(* C29: within one callback createSession is reached only after, in this
   order, the provider name was recognised, the state was validated, the
   provider of the state matched, the code was exchanged, the profile was
   fetched, a member was resolved and the member was found active; a
   failure of one of these steps ends the callback with the redirect to the
   login page that carries the reason of that step, no step is taken twice
   and no session is created. *)
C29_CallbackStepOrder ==
    last.op = "callback" =>
        /\ \A step \in CallbackSteps : LastCount(step) <= 1
        /\ LastDid("createSession") =>
              /\ last.providerName # Null
              /\ last.stateData # Null
              /\ Val(last.stateData).provider = Val(last.providerName)
              /\ 0 < LastAt("validateOAuthState")
              /\ LastAt("validateOAuthState") < LastAt("exchangeCode")
              /\ LastAt("exchangeCode") < LastAt("getUserProfile")
              /\ LastAt("getUserProfile") < LastAt("findSocialProfile")
              /\ LastAt("findSocialProfile") < LastAt("getMemberById")
              /\ LastDid("findMemberByEmail") =>
                    /\ LastAt("findSocialProfile")
                          < LastAt("findMemberByEmail")
                    /\ LastAt("findMemberByEmail") < LastAt("getMemberById")
              /\ LastAt("getMemberById") < LastAt("createSession")
              /\ last.mbId # Null
              /\ last.env.member = "active"
        /\ LastFailure # Null =>
              /\ last.outcome
                   = Thrown(Redirect(302, LoginError(Val(LastFailure))))
              /\ ~LastDid("createSession")
              /\ ~last.sessionCreated
              /\ last.written \cap {SESSION_COOKIE_NAME, CSRF_COOKIE_NAME}
                   = {}

(* C29 witness: a callback has created the session of a member that it
   resolved by the e-mail address of the profile *)
C29_Witness ==
    /\ last.op = "callback"
    /\ LastDid("createSession")
    /\ last.sessionCreated
    /\ LastDid("findMemberByEmail")
    /\ LastFailure = Null

---------------------------------------------------------------------------
(* The auth utility: getAuthUser(cookies). The cookies of a request are a
   record [angple_sid, access_token, refresh_token, damoang_jwt] of cookie
   values, Null for a cookie the request does not carry. The environment
   names the call that throws (throwAt) and the member ids of which
   getMemberById finds a row (members). *)

(* lines 237-242, 270-275: the AuthUser of a member row *)
memberUser(member) ==
    [mb_id |-> member.mb_id,
     mb_name |-> OrElse(member.mb_nick, member.mb_name),
     mb_level |-> member.mb_level,
     mb_email |-> OrElse(member.mb_email, "")]

(* lines 255-260, 293-298: the AuthUser of a token payload *)
payloadUser(payload) ==
    [mb_id |-> payload.sub, mb_name |-> payload.nickname,
     mb_level |-> payload.level, mb_email |-> payload.email]

(* lines 231-248: the session cookie *)
authBySession(cookies, env, rows, t) ==
    LET sessionId == cookies.angple_sid
        g == getSession(rows, Val(sessionId), t)
    IN IF sessionId = Null \/ env.throwAt = "getSession"
       THEN [ret |-> Null, sessions |-> rows]
       ELSE IF g.ret = Null \/ env.throwAt = "getMemberById"
       THEN [ret |-> Null, sessions |-> g.rows]
       ELSE IF Val(g.ret).mbId \notin env.members
       THEN [ret |-> Null, sessions |-> g.rows]
       ELSE [ret |-> Some(memberUser(MemberRow(Val(g.ret).mbId))),
             sessions |-> g.rows]

(* lines 250-262: the access_token cookie *)
authByAccessToken(cookies, t) ==
    LET accessToken == cookies.access_token
        payload == verifyToken(cookieToken(Val(accessToken)), t)
    IN IF accessToken = Null THEN Null
       ELSE IF payload = Null THEN Null
       ELSE Some(payloadUser(Val(payload)))

(* lines 264-284: the refresh_token cookie: the signature of the token,
   then the member row of its subject *)
authByRefreshToken(cookies, env, t) ==
    LET refreshToken == cookies.refresh_token
        payload == verifyToken(cookieToken(Val(refreshToken)), t)
    IN IF refreshToken = Null THEN Null
       ELSE IF payload = Null THEN Null
       ELSE IF Val(payload).sub = "" THEN Null
       ELSE IF env.throwAt = "getMemberById" THEN Null
       ELSE IF Val(payload).sub \notin env.members THEN Null
       ELSE Some(memberUser(MemberRow(Val(payload).sub)))

(* lines 286-302: the damoang_jwt cookie *)
authByLegacyJwt(cookies, t) ==
    LET legacyJwt == cookies.damoang_jwt
        payload == verifyTokenLax(cookieToken(Val(legacyJwt)), t)
    IN IF legacyJwt = Null THEN Null
       ELSE IF payload = Null THEN Null
       ELSE Some(payloadUser(Val(payload)))

getAuthUser_refreshBeforeAccess(cookies, env, rows, t) ==
    LET s == authBySession(cookies, env, rows, t)
        a == authByAccessToken(cookies, t)
        r == authByRefreshToken(cookies, env, t)
        l == authByLegacyJwt(cookies, t)
    IN [ret |-> IF s.ret # Null THEN s.ret
                ELSE IF r # Null THEN r
                ELSE IF a # Null THEN a
                ELSE l,
        sessions |-> s.sessions]

getAuthUser(cookies, env, rows, t) ==
    LET s == authBySession(cookies, env, rows, t)
        a == authByAccessToken(cookies, t)
        r == authByRefreshToken(cookies, env, t)
        l == authByLegacyJwt(cookies, t)
    IN [ret |-> IF s.ret # Null THEN s.ret
                ELSE IF a # Null THEN a
                ELSE IF r # Null THEN r
                ELSE l,
        sessions |-> s.sessions]

---------------------------------------------------------------------------
(* Requests that authenticate with getAuthUser, as a state machine over the
   two stores. The machine follows the credentials of one browser: one
   login that creates a session, one that issues a refresh token, the
   logout that revokes it, and the requests made with the cookies. *)

(* tokens of the legacy PHP site: one of member u2, one without a member
   id *)
LegacyTokens ==
    {[mb_id |-> "u2", mb_name |-> "legacy", mb_level |-> 3,
      mb_email |-> "l@x", exp |-> MaxTime + 2, key |-> DAMOANG_JWT_SECRET],
     [mb_name |-> "legacy", exp |-> MaxTime + 2,
      key |-> DAMOANG_JWT_SECRET]}

(* refresh tokens the store never saw: one signed with another key, one
   with an empty subject *)
ForgedRefreshTokens ==
    {x \in ForgedTokens : x.iss = "angple"}

AuthCookies ==
    [angple_sid : {Null} \cup {Some(x) : x \in PresentedSessionIds},
     access_token : {Null} \cup
         {Some(tokenCookie(generateAccessToken(MemberRow("u2"), t0))) :
             t0 \in {0, now}},
     refresh_token : {Null} \cup
         {Some(tokenCookie(issued[k].token)) : k \in 1..Len(issued)} \cup
         {Some(tokenCookie(x)) : x \in ForgedRefreshTokens},
     damoang_jwt : {Null} \cup {Some(tokenCookie(x)) : x \in LegacyTokens}]

(* only a call that the request makes can throw, or find no row *)
AuthEnvs(cookies) ==
    {e \in [throwAt : {"none", "getSession", "getMemberById"},
            members : {{}, Members}] :
        /\ e.throwAt = "getSession" => cookies.angple_sid # Null
        /\ (e.throwAt = "getMemberById" \/ e.members = {}) =>
              (cookies.angple_sid # Null \/ cookies.refresh_token # Null)
        /\ e.throwAt # "none" => e.members = Members}

GetAuthUser(cookies, env) ==
    /\ LET res == getAuthUser(cookies, env, sessions, now)
       IN /\ sessions' = res.sessions
          /\ last' = [op |-> "getAuthUser", cookies |-> cookies, env |-> env,
                      ret |-> res.ret, store |-> sessions]
    /\ prev' = NoCall
    /\ UNCHANGED <<cacheVars, now, nextSession, created, tokenVars,
                   oauthVars, webVars,
                   raceVars>>

NextAuth ==
    \/ Tick(MaxSessionTime)
    \/ /\ issued = <<>>
       /\ \E m \in TokenHolders : IssueRefreshToken(m)
    \/ RevokeToken
    \/ /\ created = <<>>
       /\ \E m \in Members : CreateSession(m)
    \/ /\ last = NoCall
       /\ \E cookies \in AuthCookies :
            \E env \in AuthEnvs(cookies) : GetAuthUser(cookies, env)
    \/ ResponseSent

SpecAuth == InitTokens /\ [][NextAuth]_vars

---------------------------------------------------------------------------
(* Claims about getAuthUser *)

(* the identity each credential of the last request stands for, Null when
   the credential is absent or does not verify: a session that exists and
   has not expired, of a member that is found; a token of this site that
   has not expired; a refresh token of this site that has not expired, of a
   member that is found; a token of the legacy site that names a member *)
LastSessionIdentity ==
    LET sid == last.cookies.angple_sid
    IN IF sid = Null \/ last.env.throwAt # "none" THEN Null
       ELSE IF ~IsValidSession(last.store, Val(sid), now) THEN Null
       ELSE IF CreatedAs(Val(sid)).mbId \notin last.env.members THEN Null
       ELSE Some(memberUser(MemberRow(CreatedAs(Val(sid)).mbId)))

SignedHere(token) ==
    /\ token.key = JWT_SECRET
    /\ "iss" \in DOMAIN token
    /\ token.iss = "angple"
    /\ token.exp > now

LastAccessIdentity ==
    LET c == last.cookies.access_token
    IN IF c = Null THEN Null
       ELSE IF ~SignedHere(cookieToken(Val(c))) THEN Null
       ELSE Some([mb_id |-> cookieToken(Val(c)).sub,
                  mb_name |-> cookieToken(Val(c)).nickname,
                  mb_level |-> cookieToken(Val(c)).level,
                  mb_email |-> cookieToken(Val(c)).email])

LastRefreshIdentity ==
    LET c == last.cookies.refresh_token
    IN IF c = Null THEN Null
       ELSE IF ~SignedHere(cookieToken(Val(c))) THEN Null
       ELSE IF last.env.throwAt = "getMemberById" THEN Null
       ELSE IF cookieToken(Val(c)).sub \notin last.env.members THEN Null
       ELSE Some(memberUser(MemberRow(cookieToken(Val(c)).sub)))

LastLegacyIdentity ==
    LET c == last.cookies.damoang_jwt
    IN IF c = Null THEN Null
       ELSE IF cookieToken(Val(c)).key # DAMOANG_JWT_SECRET THEN Null
       ELSE IF ~(cookieToken(Val(c)).exp > now) THEN Null
       ELSE IF "mb_id" \notin DOMAIN cookieToken(Val(c)) THEN Null
       ELSE Some([mb_id |-> cookieToken(Val(c)).mb_id,
                  mb_name |-> cookieToken(Val(c)).mb_name,
                  mb_level |-> cookieToken(Val(c)).mb_level,
                  mb_email |-> cookieToken(Val(c)).mb_email])

(* C21: getAuthUser returns the identity of the first credential that
   verifies, in the order session cookie, access_token cookie,
   refresh_token cookie, damoang_jwt cookie; a credential that is absent or
   does not verify is passed over, and without a credential that verifies
   the result is null. *)
C21_CredentialPriority ==
    last.op = "getAuthUser" =>
        last.ret = IF LastSessionIdentity # Null THEN LastSessionIdentity
                   ELSE IF LastAccessIdentity # Null THEN LastAccessIdentity
                   ELSE IF LastRefreshIdentity # Null
                   THEN LastRefreshIdentity
                   ELSE LastLegacyIdentity

(* C21 witness: a request carries the cookie of a session that has
   expired, no access token that verifies, a refresh token that verifies
   and a legacy token that verifies, and is given the identity of the
   refresh token *)
C21_Witness ==
    /\ last.op = "getAuthUser"
    /\ last.cookies.angple_sid # Null
    /\ SelectSessionRow(last.store,
                        hashSessionId(Val(last.cookies.angple_sid))) # Null
    /\ LastSessionIdentity = Null
    /\ LastAccessIdentity = Null
    /\ LastRefreshIdentity # Null
    /\ LastLegacyIdentity # Null
    /\ LastLegacyIdentity # LastRefreshIdentity
    /\ last.ret = LastRefreshIdentity

(* the rows of the store that have the hash of the refresh_token cookie of
   the last request *)
LastRefreshRows ==
    IF last.cookies.refresh_token = Null THEN {}
    ELSE {r \in refreshTokens :
            r.token_hash
              = hashToken(cookieToken(Val(last.cookies.refresh_token)))}

(* C30: a refresh token whose row in the store has revoked_at set yields no
   identity: a request that presents it in the refresh_token cookie, and
   no other credential that verifies, is answered null by getAuthUser. *)
C30_RevokedTokenYieldsNoIdentity ==
    (/\ last.op = "getAuthUser"
     /\ LastRefreshRows # {}
     /\ \A r \in LastRefreshRows : r.revoked_at # Null
     /\ LastSessionIdentity = Null
     /\ LastAccessIdentity = Null
     /\ LastLegacyIdentity = Null) =>
        last.ret = Null

---------------------------------------------------------------------------
(* The provider adapters: parseUserProfile. A payload is the object the
   provider has answered: a record that has exactly the properties the
   object has. *)

(* the value of a property the object lacks, and String() of it *)
Undefined == "undefined"

Has(obj, name) == name \in DOMAIN obj

(* obj.name; obj?.name on an object that may be absent *)
Get(obj, name) == IF Has(obj, name) THEN obj[name] ELSE Undefined

(* x || y on strings: undefined and '' are falsy *)
Either(x, y) == IF x = Undefined \/ x = "" THEN y ELSE x

(* the profile a parse returns, or the TypeError of reading a property of
   undefined *)
Parsed(profile) == [threw |-> FALSE, profile |-> profile]
TypeError == [threw |-> TRUE, profile |-> Null]

(* part_005, lines 35-46 *)
NaverParseUserProfile(data) ==
    IF ~Has(data, "response") THEN TypeError
    ELSE LET r == data.response
         IN Parsed([provider |-> "naver",
                    identifier |-> Get(r, "id"),
                    displayName |-> Either(Get(r, "nickname"),
                                           Either(Get(r, "name"), "")),
                    email |-> Either(Get(r, "email"), ""),
                    photoUrl |-> Either(Get(r, "profile_image"), ""),
                    profileUrl |-> ""])

(* d.kakao_account?.profile?.name *)
KakaoAccountProfile(d, name) ==
    IF ~Has(d, "kakao_account") THEN Undefined
    ELSE IF ~Has(d.kakao_account, "profile") THEN Undefined
    ELSE Get(d.kakao_account.profile, name)

(* part_003, lines 230-244 *)
KakaoParseUserProfile(d) ==
    Parsed([provider |-> "kakao",
            identifier |-> IF Has(d, "id") THEN ToString(d.id)
                           ELSE Undefined,
            displayName |->
                Either(IF Has(d, "properties")
                       THEN Get(d.properties, "nickname") ELSE Undefined,
                       Either(KakaoAccountProfile(d, "nickname"), "")),
            email |-> Either(IF Has(d, "kakao_account")
                             THEN Get(d.kakao_account, "email")
                             ELSE Undefined, ""),
            photoUrl |->
                Either(IF Has(d, "properties")
                       THEN Get(d.properties, "thumbnail_image")
                       ELSE Undefined,
                       Either(KakaoAccountProfile(d, "thumbnail_image_url"),
                              "")),
            profileUrl |-> ""])

(* part_004, lines 49-59 *)
GoogleParseUserProfile(d) ==
    Parsed([provider |-> "google",
            identifier |-> Get(d, "sub"),
            displayName |-> Either(Get(d, "name"), ""),
            email |-> Either(Get(d, "email"), ""),
            photoUrl |-> Either(Get(d, "picture"), ""),
            profileUrl |-> ""])

(* part_003, lines 37-47 *)
FacebookParseUserProfile(d) ==
    Parsed([provider |-> "facebook",
            identifier |-> Get(d, "id"),
            displayName |-> Either(Get(d, "name"), ""),
            email |-> Either(Get(d, "email"), ""),
            photoUrl |->
                Either(IF ~Has(d, "picture") THEN Undefined
                       ELSE IF ~Has(d.picture, "data") THEN Undefined
                       ELSE Get(d.picture.data, "url"), ""),
            profileUrl |-> "https://www.facebook.com/" \o Get(d, "id")])

(* jwt.ts, lines 268-278 *)
AppleParseUserProfile(d) ==
    Parsed([provider |-> "apple",
            identifier |-> Get(d, "sub"),
            displayName |-> "",
            email |-> Either(Get(d, "email"), ""),
            photoUrl |-> "",
            profileUrl |-> ""])

(* part_003, lines 177-188 *)
TwitterParseUserProfile_nameFromId(data) ==
    IF ~Has(data, "data") THEN TypeError
    ELSE LET d == data.data
         IN Parsed([provider |-> "twitter",
                    identifier |-> Get(d, "id"),
                    displayName |-> Either(Get(d, "name"),
                                       Either(Get(d, "username"),
                                              Get(d, "id"))),
                    email |-> "",
                    photoUrl |-> Either(Get(d, "profile_image_url"), ""),
                    profileUrl |->
                        IF Either(Get(d, "username"), "") # ""
                        THEN "https://x.com/" \o d.username ELSE ""])

TwitterParseUserProfile(data) ==
    IF ~Has(data, "data") THEN TypeError
    ELSE LET d == data.data
         IN Parsed([provider |-> "twitter",
                    identifier |-> Get(d, "id"),
                    displayName |-> Either(Get(d, "name"),
                                       Either(Get(d, "username"), "")),
                    email |-> "",
                    photoUrl |-> Either(Get(d, "profile_image_url"), ""),
                    profileUrl |->
                        IF Either(Get(d, "username"), "") # ""
                        THEN "https://x.com/" \o d.username ELSE ""])

(* d.data?.member?.name *)
PaycoMember(d, name) ==
    IF ~Has(d, "data") THEN Undefined
    ELSE IF ~Has(d.data, "member") THEN Undefined
    ELSE Get(d.data.member, name)

(* part_003, lines 308-319 *)
PaycoParseUserProfile(d) ==
    Parsed([provider |-> "payco",
            identifier |-> Either(PaycoMember(d, "idNo"), ""),
            displayName |-> Either(PaycoMember(d, "name"), ""),
            email |-> Either(PaycoMember(d, "email"), ""),
            photoUrl |-> Either(PaycoMember(d, "profileImageUrl"), ""),
            profileUrl |-> ""])

(* provider.parseUserProfile(data) of the adapter of a provider *)
parseUserProfile(provider, data) ==
    CASE provider = "naver" -> NaverParseUserProfile(data)
      [] provider = "kakao" -> KakaoParseUserProfile(data)
      [] provider = "google" -> GoogleParseUserProfile(data)
      [] provider = "facebook" -> FacebookParseUserProfile(data)
      [] provider = "apple" -> AppleParseUserProfile(data)
      [] provider = "twitter" -> TwitterParseUserProfile(data)
      [] provider = "payco" -> PaycoParseUserProfile(data)

---------------------------------------------------------------------------
(* The payloads of the providers, and the machine that parses one *)

(* an object that has the properties of names, each with a text value *)
Obj(names) == [k \in names |-> k \o "!"]

(* obj and the property name: value *)
With(obj, name, value) ==
    [k \in DOMAIN obj \cup {name} |-> IF k = name THEN value ELSE obj[k]]

EmptyObject == Obj({})

SocialProviders ==
    {"naver", "kakao", "google", "facebook", "apple", "twitter", "payco"}

(* the payload of a provider that has the required properties alone
   (the response types of the adapters) *)
RequiredOnly(provider) ==
    CASE provider = "naver" -> [response |-> Obj({"id"})]
      [] provider = "kakao" -> [id |-> 7]
      [] provider = "google" -> Obj({"sub"})
      [] provider = "facebook" -> Obj({"id"})
      [] provider = "apple" -> Obj({"sub"})
      [] provider = "twitter" -> [data |-> Obj({"id"})]
      [] provider = "payco" -> [header |-> [isSuccessful |-> TRUE]]

KakaoProperties ==
    {Obj(S) : S \in SUBSET {"nickname", "thumbnail_image"}}

KakaoAccounts ==
    {Obj(S) : S \in SUBSET {"email"}} \cup
    {With(Obj(S), "profile", Obj(P)) :
        S \in SUBSET {"email"},
        P \in SUBSET {"nickname", "thumbnail_image_url"}}

FacebookPictures ==
    {EmptyObject, [data |-> EmptyObject], [data |-> Obj({"url"})]}

(* the payloads a provider may answer: the required properties with any of
   the optional ones, and an object without any property *)
Payloads(provider) ==
    {EmptyObject} \cup
    CASE provider = "naver" ->
            {[response |-> Obj({"id"} \cup S)] :
                S \in SUBSET {"nickname", "email", "profile_image", "name"}}
      [] provider = "kakao" ->
            {[id |-> 7]}
            \cup {With([id |-> 7], "properties", p) : p \in KakaoProperties}
            \cup {With([id |-> 7], "kakao_account", a) : a \in KakaoAccounts}
            \cup {With(With([id |-> 7], "properties", p),
                        "kakao_account", a) :
                     p \in KakaoProperties, a \in KakaoAccounts}
      [] provider = "google" ->
            {Obj({"sub"} \cup S) : S \in SUBSET {"name", "email", "picture"}}
      [] provider = "facebook" ->
            {Obj({"id"} \cup S) : S \in SUBSET {"name", "email"}}
            \cup {With(Obj({"id"} \cup S), "picture", p) :
                     S \in SUBSET {"name", "email"}, p \in FacebookPictures}
      [] provider = "apple" ->
            {Obj({"sub"} \cup S) : S \in SUBSET {"email"}}
      [] provider = "twitter" ->
            {[data |-> Obj({"id"} \cup S)] :
                S \in SUBSET {"name", "username", "profile_image_url"}}
      [] provider = "payco" ->
            {RequiredOnly("payco"),
             With(RequiredOnly("payco"), "data", EmptyObject)}
            \cup {With(RequiredOnly("payco"), "data", [member |-> Obj(S)]) :
                     S \in SUBSET {"idNo", "email", "name",
                                   "profileImageUrl"}}

(* a provider has answered the profile request with a payload *)
InitProfiles ==
    /\ now = 0
    /\ refreshTokens = {}
    /\ nextTokenId = 1
    /\ nextFamily = 0
    /\ issued = <<>>
    /\ sessions = {}
    /\ nextSession = 0
    /\ created = <<>>
    /\ cookieJar = Null
    /\ nextState = 0
    /\ consumed = {}
    /\ browser = {}
    /\ cookieDomain = ""
    /\ served = 0
    /\ calls = {}
    /\ reuseDetected = {}
    /\ cachedKeys = Null
    /\ cacheTimestamp = 0
    /\ config = Some(1)
    /\ prev = NoCall
    /\ \E provider \in SocialProviders :
         \E data \in Payloads(provider) :
            last = [op |-> "payload", provider |-> provider, data |-> data]

(* getUserProfile hands the payload to the parser of the adapter *)
ParseUserProfile ==
    /\ last.op = "payload"
    /\ last' = [op |-> "parseUserProfile", provider |-> last.provider,
                data |-> last.data,
                ret |-> parseUserProfile(last.provider, last.data)]
    /\ UNCHANGED <<cacheVars, now, tokenVars, sessionVars, oauthVars,
                   webVars, raceVars,
                   prev>>

NextProfiles == ParseUserProfile

SpecProfiles == InitProfiles /\ [][NextProfiles]_vars

---------------------------------------------------------------------------
(* Claims about the provider adapters *)

(* C22: for each of the seven providers, parseUserProfile applied to the
   payload that has the required properties alone does not throw, and the
   display name, the e-mail address and the photo URL of the profile it
   returns are the empty string. *)
C22_OptionalFieldsDefault ==
    (last.op = "parseUserProfile"
        /\ last.data = RequiredOnly(last.provider)) =>
        /\ ~last.ret.threw
        /\ last.ret.profile.displayName = ""
        /\ last.ret.profile.email = ""
        /\ last.ret.profile.photoUrl = ""

(* C22 witness: the Twitter adapter has parsed { data: { id } } *)
C22_Witness ==
    /\ last.op = "parseUserProfile"
    /\ last.provider = "twitter"
    /\ last.data = [data |-> [id |-> "id!"]]
    /\ ~last.ret.threw
    /\ last.ret.profile.identifier = "id!"
    /\ last.ret.profile.displayName = ""

---------------------------------------------------------------------------
(* Concurrent calls on the refresh-token store. Every await on the
   database is a statement of its own, and the statements of the calls in
   progress interleave. A call in progress is a record
   [id, op, token, pc, sel, ret, pre]: op is "rotate" (rotateRefreshToken)
   or "find" (findValidToken called alone), pc the statement the call
   makes next, sel the row its SELECT returned, ret what it has returned
   once pc is "done", pre the store as its SELECT saw it. The store is
   first built by calls that run one after the other; the concurrent calls
   then run without another writer. *)

MaxCalls == 2

(* part_006, lines 142-162: what findValidToken does with the row its
   SELECT returned, at the time it looks at the row *)
findValidTokenCheck(sel, t) ==
    IF sel = Null THEN "none"
    ELSE IF Val(sel).revoked_at # Null THEN "revoked"
    ELSE IF t > Val(sel).expires_at THEN "expired"
    ELSE "valid"

Replace(c, d) == (calls \ {c}) \cup {d}

Returned(c, ret) == [c EXCEPT !.pc = "done", !.ret = ret]

(* the first statement of findValidToken: the SELECT, and the checks of
   the row that follow it without an await *)
SelectStatement(id, op, tok) ==
    \E sel \in SelectTokenRow(refreshTokens, hashToken(tok)) :
        LET c == [id |-> id, op |-> op, token |-> tok, pc |-> "select",
                  sel |-> sel, ret |-> Null, pre |-> refreshTokens]
            check == findValidTokenCheck(sel, now)
        IN calls' = calls \cup
             {IF check = "revoked" THEN [c EXCEPT !.pc = "revokeTokenFamily"]
              ELSE IF check \in {"none", "expired"} THEN Returned(c, Null)
              ELSE IF op = "find"
              THEN Returned(c, Some([mbId |-> Val(sel).mb_id,
                                     familyId |-> Val(sel).family_id]))
              ELSE [c EXCEPT !.pc = "revokeToken"]}

(* findValidToken(hashToken(tok)) is called *)
BeginFind(tok) ==
    /\ Cardinality(calls) < MaxCalls
    /\ SelectStatement(Cardinality(calls) + 1, "find", tok)
    /\ UNCHANGED <<cacheVars, now, tokenVars, sessionVars, oauthVars, webVars,
                   reuseDetected, last, prev>>

(* rotateRefreshToken(tok) is called: jwt.ts, lines 87-93 *)
BeginRotate(tok) ==
    /\ Cardinality(calls) < MaxCalls
    /\ LET payload == verifyToken(tok, now)
           id == Cardinality(calls) + 1
       IN IF payload = Null \/ Val(payload).sub = ""
          THEN calls' = calls \cup
                   {[id |-> id, op |-> "rotate", token |-> tok,
                     pc |-> "done", sel |-> Null, ret |-> Null,
                     pre |-> refreshTokens]}
          ELSE SelectStatement(id, "rotate", tok)
    /\ UNCHANGED <<cacheVars, now, tokenVars, sessionVars, oauthVars, webVars,
                   reuseDetected, last, prev>>

(* part_006, lines 147-154: reuse detection revokes the family *)
RevokeTokenFamilyStatement(c) ==
    /\ c.pc = "revokeTokenFamily"
    /\ refreshTokens' = revokeTokenFamily(refreshTokens,
                                          Val(c.sel).family_id, now)
    /\ reuseDetected' = reuseDetected \cup {Val(c.sel).family_id}
    /\ calls' = Replace(c, Returned(c, Null))
    /\ UNCHANGED <<cacheVars, now, nextTokenId, nextFamily, issued,
                   sessionVars,
                   oauthVars, webVars, last, prev>>

(* jwt.ts, line 96: await revokeToken(oldTokenHash) *)
RevokeTokenStatement(c) ==
    /\ c.pc = "revokeToken"
    /\ refreshTokens' = revokeToken(refreshTokens, hashToken(c.token), now)
    /\ calls' = Replace(c, [c EXCEPT !.pc = "generateRefreshToken"])
    /\ UNCHANGED <<cacheVars, now, nextTokenId, nextFamily, issued,
                   sessionVars,
                   oauthVars, webVars, reuseDetected, last, prev>>

(* jwt.ts, lines 99-104: the new token of the family *)
GenerateRefreshTokenStatement(c) ==
    /\ c.pc = "generateRefreshToken"
    /\ nextTokenId <= MaxTokens
    /\ LET gen == generateRefreshToken(refreshTokens, nextTokenId, nextFamily,
                                       Val(c.sel).mb_id,
                                       Some(Val(c.sel).family_id), now)
       IN /\ refreshTokens' = gen.rows
          /\ nextTokenId' = gen.nextId
          /\ nextFamily' = gen.nextFamily
          /\ issued' = Append(issued, [token |-> gen.token,
                                       lineage |-> 0,
                                       parent |-> Some(c.token),
                                       familyId |-> gen.familyId])
          /\ calls' = Replace(c, Returned(c,
                          Some([token |-> gen.token,
                                mbId |-> Val(c.sel).mb_id])))
    /\ UNCHANGED <<cacheVars, now, sessionVars, oauthVars, webVars,
                   reuseDetected,
                   last, prev>>

IssuedTokens == {issued[k].token : k \in 1..Len(issued)}

NextTokenRace ==
    \/ Tick(MaxTime)
    \/ /\ calls = {}
       /\ \E m \in TokenHolders : IssueRefreshToken(m)
    \/ /\ calls = {}
       /\ \E k \in 1..Len(issued) :
            Rotate(issued[k].token, issued[k].lineage)
    \/ /\ calls = {}
       /\ RevokeToken
    \/ \E tok \in IssuedTokens : BeginFind(tok)
    \/ \E tok \in IssuedTokens : BeginRotate(tok)
    \/ \E c \in calls : RevokeTokenFamilyStatement(c)
    \/ \E c \in calls : RevokeTokenStatement(c)
    \/ \E c \in calls : GenerateRefreshTokenStatement(c)

SpecTokenRace == InitTokens /\ [][NextTokenRace]_vars

---------------------------------------------------------------------------
(* Claims about concurrent calls on the refresh-token store *)

(* the rows of a family that findValidToken accepts when its SELECT
   returns them *)
AcceptedRows(familyId) ==
    {r \in refreshTokens :
        /\ r.family_id = familyId
        /\ findValidToken(refreshTokens, Some(r), now).ret # Null}

(* C23: under every interleaving of rotateRefreshToken calls and reuse
   detections, a family that reuse detection has revoked holds no token
   that findValidToken accepts, from then on. *)
C23_RevokedFamilyStaysDead ==
    \A f \in reuseDetected : AcceptedRows(f) = {}

(* C24: under every interleaving of rotateRefreshToken calls, every family
   holds at most one token that is neither revoked nor expired. *)
C24_OneLiveTokenPerFamily ==
    \A r \in refreshTokens : Cardinality(AcceptedRows(r.family_id)) <= 1

(* a row of the token is revoked in the store *)
AlreadyRevoked(rows, tok) ==
    \E r \in rows : r.token_hash = hashToken(tok) /\ r.revoked_at # Null

(* C26: two concurrent findValidToken calls that present the same token,
   revoked before either call, both return null, and the store they leave
   is the store a single such call leaves: the rows that were revoked
   before keep their revoked_at. *)
C26_ConcurrentReuseIdempotent ==
    \A c1, c2 \in calls :
        (/\ calls = {c1, c2} /\ c1.id < c2.id
         /\ c1.op = "find" /\ c2.op = "find"
         /\ c1.pc = "done" /\ c2.pc = "done"
         /\ c1.token = c2.token
         /\ AlreadyRevoked(c1.pre, c1.token)) =>
            /\ c1.ret = Null
            /\ c2.ret = Null
            /\ \E t \in 0..now :
                 \E sel \in SelectTokenRow(c1.pre, hashToken(c1.token)) :
                    refreshTokens = findValidToken(c1.pre, sel, t).rows
            /\ \A r \in c1.pre : r.revoked_at # Null => r \in refreshTokens

---------------------------------------------------------------------------
(* Concurrent getSession calls. A call in progress is a record
   [id, op, sessionId, pc, row, now, ret]: row is the row its SELECT
   returned, now the `new Date()` it took after the SELECT, pc the
   statement it makes next. *)

(* session-store.ts, lines 95-126: the SELECT, and what the call decides
   from the row without an await *)
BeginGetSession(sessionId) ==
    /\ Cardinality(calls) < MaxCalls
    /\ LET sel == SelectSessionRow(sessions, hashSessionId(sessionId))
           c == [id |-> Cardinality(calls) + 1, op |-> "getSession",
                 sessionId |-> sessionId, pc |-> "done", row |-> sel,
                 now |-> now, ret |-> Null]
           idle == now - Val(sel).last_active_at
       IN calls' = calls \cup
            {IF sel = Null THEN c
             ELSE IF now > Val(sel).expires_at THEN [c EXCEPT !.pc = "delete"]
             ELSE IF idle > SESSION_REFRESH_THRESHOLD_MS
             THEN [c EXCEPT !.pc = "extend"]
             ELSE IF idle > LAST_ACTIVE_WRITE_INTERVAL_MS
             THEN [c EXCEPT !.pc = "touch"]
             ELSE [c EXCEPT !.ret = Some(SessionData(sessionId, Val(sel)))]}
    /\ UNCHANGED <<cacheVars, now, tokenVars, sessionVars, oauthVars, webVars,
                   reuseDetected, last, prev>>

(* lines 110-113: DELETE ... WHERE session_id_hash = ? *)
DeleteStatement(c) ==
    /\ c.op = "getSession" /\ c.pc = "delete"
    /\ sessions' = destroySession(sessions, c.sessionId)
    /\ calls' = Replace(c, [c EXCEPT !.pc = "done"])
    /\ UNCHANGED <<cacheVars, now, nextSession, created, tokenVars,
                   oauthVars, webVars,
                   reuseDetected, last, prev>>

(* lines 119-124: UPDATE ... SET last_active_at = NOW(), expires_at = ?
   with the expiry computed from the time the call took after its SELECT *)
ExtendStatement(c) ==
    /\ c.op = "getSession" /\ c.pc = "extend"
    /\ sessions' = {IF r.session_id_hash = hashSessionId(c.sessionId)
                    THEN [r EXCEPT !.last_active_at = now,
                                   !.expires_at = c.now + SESSION_MAX_AGE_MS]
                    ELSE r : r \in sessions}
    /\ calls' = Replace(c, [c EXCEPT !.pc = "done",
                   !.ret = Some(SessionData(c.sessionId, Val(c.row)))])
    /\ UNCHANGED <<cacheVars, now, nextSession, created, tokenVars,
                   oauthVars, webVars,
                   reuseDetected, last, prev>>

(* lines 127-132: UPDATE ... SET last_active_at = NOW() *)
TouchStatement(c) ==
    /\ c.op = "getSession" /\ c.pc = "touch"
    /\ sessions' = {IF r.session_id_hash = hashSessionId(c.sessionId)
                    THEN [r EXCEPT !.last_active_at = now]
                    ELSE r : r \in sessions}
    /\ calls' = Replace(c, [c EXCEPT !.pc = "done",
                   !.ret = Some(SessionData(c.sessionId, Val(c.row)))])
    /\ UNCHANGED <<cacheVars, now, nextSession, created, tokenVars,
                   oauthVars, webVars,
                   reuseDetected, last, prev>>

NextSessionRace ==
    \/ Tick(MaxSessionTime)
    \/ /\ calls = {}
       /\ \E m \in LoginMembers : CreateSession(m)
    \/ \E sid \in PresentedSessionIds : BeginGetSession(sid)
    \/ \E c \in calls : DeleteStatement(c)
    \/ \E c \in calls : ExtendStatement(c)
    \/ \E c \in calls : TouchStatement(c)

SpecSessionRace == InitSessions /\ [][NextSessionRace]_vars

---------------------------------------------------------------------------
(* Claims about concurrent getSession calls *)

(* C25: under every interleaving of getSession calls on a session, no
   write moves the stored last_active_at or the stored expires_at of the
   session backwards. *)
C25_TimestampsNeverMoveBack ==
    [][\A r \in sessions : \A q \in sessions' :
          q.session_id_hash = r.session_id_hash =>
              /\ q.last_active_at >= r.last_active_at
              /\ q.expires_at >= r.expires_at]_vars

---------------------------------------------------------------------------
(* Claims about the cookie of a refused OAuth state *)

(* C37: validateOAuthState leaves the oauth_state cookie as it was whenever
   it returns null (no cookie, a cookie that does not parse, another state
   string, a state older than STATE_MAX_AGE); the cookie is deleted by a
   successful validation only. *)
C37_RefusedStateKeepsCookie ==
    last.op = "validateOAuthState" =>
        /\ last.ret = Null => CookieValue(cookieJar) = last.pre
        /\ last.ret # Null => cookieJar = Null

(* C37 witness: the state of the cookie was presented after its TTL, was
   refused, and the cookie is still in the browser *)
C37_Witness ==
    /\ last.op = "validateOAuthState"
    /\ last.pre # Null
    /\ LastStateData # Null
    /\ Val(LastStateData).state = last.state
    /\ DateNow(now) - Val(LastStateData).timestamp > STATE_MAX_AGE * 1000
    /\ last.ret = Null
    /\ cookieJar # Null

---------------------------------------------------------------------------
(* Claims about the authentication state of a request *)

(* the four fields authenticateSSR sets *)
AllSet(locals) ==
    /\ locals.user # Null /\ locals.sessionId # Null
    /\ locals.csrfToken # Null /\ locals.accessToken # Null

(* C36: after authenticateSSR has returned, user, sessionId, csrfToken and
   accessToken are all set, and are those of the valid session of the
   request's cookie, or all four are null. *)
C36_AuthStateAllOrNothing ==
    (last.op = "request" /\ LastDid("authenticateSSR")) =>
        \/ last.locals = NoLocals
        \/ /\ AllSet(last.locals)
           /\ last.session # Null
           /\ last.locals.sessionId = last.sid
           /\ last.locals.csrfToken = Some(Val(last.session).csrfToken)
           /\ Val(last.locals.accessToken).sub = Val(last.session).mbId

---------------------------------------------------------------------------
(* Claims about the redirect that ends a login *)

(* the request has logged the browser in: a session was created and the
   handler has raised its final redirect *)
LoginRedirect ==
    IF last.op \in {"callback", "register"} /\ last.sessionCreated
          /\ last.outcome.type = "throw"
          /\ HasStatus(last.outcome.value) /\ HasLocation(last.outcome.value)
    THEN Some(last.outcome.value.location)
    ELSE Null

(* C35: the redirect that ends a successful OAuth login or social
   registration targets a location of the site: whatever redirect value the
   start request or the registration form carried, the final redirect is
   never an absolute URL of another origin. *)
C35_LoginRedirectStaysOnSite ==
    LoginRedirect # Null => Val(LoginRedirect).path \notin OffSiteUrls

---------------------------------------------------------------------------
(* Claims about the start of an OAuth login *)

(* the content of the oauth_state cookie *)
StoredState == JSONparse(CookieValue(cookieJar)[1])

(* the start request was refused: no provider name or an unknown one *)
StartRefused ==
    \/ last.providerParam = Null
    \/ ~isValidProvider(Val(last.providerParam))

(* C39: a start request without a provider or with an unknown provider is
   answered 400 and sets no cookie. With a valid provider, unless a call of
   the handler throws (the answer is 500 then), the oauth_state cookie holds
   one newly generated state, the name of the provider and the requested
   redirect target ("/" when none was requested), and the request is
   redirected to the authorize URL of the provider with that state. *)
C39_StartStoresStateAndRedirects ==
    last.op = "oauthStart" =>
        /\ StartRefused =>
              /\ last.outcome = Responded(400)
              /\ last.written = {} /\ ~last.stateSet
        /\ (~StartRefused /\ last.outcome # Responded(500)) =>
              LET providerName == toLowerCase(Val(last.providerParam))
                  state == generateRandomState(nextState)
              IN /\ last.stateSet
                 /\ state \notin consumed
                 /\ StoredState
                       = Some([state |-> state, provider |-> providerName,
                               redirect |->
                                   IF last.redirectParam = Null THEN "/"
                                   ELSE Val(last.redirectParam),
                               timestamp |-> DateNow(now)])
                 /\ last.outcome
                       = Thrown(Redirect(302,
                             getAuthorizationUrl(providerName, state)))

(* C39 witness: the second start request of a browser has replaced the
   state of the first and has redirected to the provider *)
C39_Witness ==
    /\ last.op = "oauthStart" /\ ~StartRefused
    /\ last.redirectParam = Some("/free")
    /\ nextState = 2
    /\ last.stateSet
    /\ last.outcome.type = "throw"
    /\ last.outcome.value.location.state = generateRandomState(2)

(* a refused start request *)
C39_WitnessRefused ==
    /\ last.op = "oauthStart" /\ last.providerParam = Some("bogus")
    /\ cookieJar # Null
    /\ last.outcome = Responded(400)

---------------------------------------------------------------------------
(* Claims about the register action *)

(* the steps of a registration, in the order of the claim *)
RegistrationSteps ==
    <<"createMember", "upsertSocialProfile", "updateLoginTimestamp",
      "createSession">>

(* the step was taken by the last request and has not thrown *)
LastSucceeded(name) == LastDid(name) /\ last.env.throwAt # name

(* C38: the register action creates a member only when the rate limit
   allows the request, the captcha verifies, the pending_social_register
   cookie is present and parses, both consents are given and the nickname
   validates. It then creates the member, upserts the social profile link,
   updates the last login and creates the session, in this order, each step
   after the success of the one before, and it deletes the
   pending_social_register cookie only after all four have succeeded. *)
C38_RegisterOrder ==
    last.op = "register" =>
        /\ LastDid("createMember") =>
              /\ last.env.rateAllowed /\ last.env.captchaValid
              /\ last.pending # Null
              /\ last.form.agreeTerms /\ last.form.agreePrivacy
              /\ last.env.nicknameValid
        /\ \A k \in 2..Len(RegistrationSteps) :
              LastDid(RegistrationSteps[k]) =>
                  /\ LastSucceeded(RegistrationSteps[k - 1])
                  /\ LastAt(RegistrationSteps[k - 1])
                        < LastAt(RegistrationSteps[k])
        /\ \A k \in 1..Len(RegistrationSteps) :
              LastCount(RegistrationSteps[k]) <= 1
        /\ (LastDid("cookies.delete(pending_social_register)")
               \/ (last.pending # Null
                     /\ PendingProfile(browser) = Null)) =>
              /\ \A k \in 1..Len(RegistrationSteps) :
                    /\ LastSucceeded(RegistrationSteps[k])
                    /\ LastAt(RegistrationSteps[k])
                          < LastAt("cookies.delete(pending_social_register)")
              /\ last.sessionCreated

(* C38 witness: a registration has run to its end and the cookie is gone *)
C38_Witness ==
    /\ last.op = "register"
    /\ last.pending # Null
    /\ LastDid("createSession")
    /\ LastDid("cookies.delete(pending_social_register)")
    /\ PendingProfile(browser) = Null
    /\ last.sessionCreated

(* a registration whose session could not be created keeps the cookie *)
C38_WitnessKept ==
    /\ last.op = "register"
    /\ last.env.throwAt = "createSession"
    /\ LastDid("updateLoginTimestamp")
    /\ PendingProfile(browser) # Null

---------------------------------------------------------------------------
(* Claims about a profile without an identifier *)

(* the last request has worked on a profile whose identifier is "" *)
LastEmptyIdentifier ==
    \/ /\ last.op = "callback"
       /\ last.env.profile # Null
       /\ Val(last.env.profile).identifier = ""
    \/ /\ last.op = "register"
       /\ last.pending # Null
       /\ Val(last.pending).identifier = ""

(* C32: a provider profile whose identifier is the empty string leads to no
   session, to no pending registration, to no created member and to no
   stored social profile link. *)
C32_EmptyIdentifierRefused ==
    LastEmptyIdentifier =>
        /\ ~last.sessionCreated
        /\ "pending_social_register" \notin last.written
        /\ ~LastDid("createMember")
        /\ ~LastDid("upsertSocialProfile")

---------------------------------------------------------------------------
(* Claims about the callback of a form-post provider *)

(* the last request is the POST of a provider to its callback URL *)
LastFormPostCallback ==
    /\ last.op = "request"
    /\ last.method = "POST"
    /\ last.pathname = getCallbackUrl("apple")

(* C31: an OAuth callback that a form-post provider delivers by POST to the
   URL getCallbackUrl has built is never refused by the CSRF check of the
   request gate, with or without a valid session cookie. *)
C31_FormPostCallbackPassesGate ==
    LastFormPostCallback =>
        /\ last.outcome # Responded(403)
        /\ LastDid("authenticateSSR") => LastDid("resolve")

---------------------------------------------------------------------------
(* Claims about the password login *)

(* C33: when the password-login request ends with a response that is not a
   success, no session row that the request has created is left in the
   session store and the request has set no session cookie and no CSRF
   cookie. *)
C33_FailedLoginLeavesNoSession ==
    (last.op = "login" /\ last.outcome # Responded(200)) =>
        /\ ~last.sessionCreated
        /\ SESSION_COOKIE_NAME \notin last.written
        /\ CSRF_COOKIE_NAME \notin last.written

(* the rows of the refresh token the last login has stored *)
LoginTokenRows ==
    {r \in refreshTokens : r.token_hash = hashToken(Val(prev.stored))}

(* C34: after a password login and a logout of the same browser, the
   refresh token that the login has stored in the refresh-token store is
   revoked, whatever refresh_token value the Set-Cookie headers of the
   backend have placed in the browser during the login. *)
C34_LogoutRevokesLoginToken ==
    (last.op = "logout" /\ prev.op = "login" /\ prev.stored # Null
        /\ last.refresh # Null /\ ~last.env.revokeFails) =>
        \A r \in LoginTokenRows : r.revoked_at # Null

---------------------------------------------------------------------------
(* provider-registry.ts, lines 104-148: getOAuthKeys and its cache. The
   query is awaited: the statement reads g5_config at one instant and the
   call goes on at a later one, and other calls run in between. A call in
   progress is a record [id, op, pc, now, rows, loadedAt]: now is the
   Date.now() of its first line, rows what its query has returned,
   loadedAt the instant the query has read the table. The TTL is scaled
   down as the other durations are. *)

CACHE_TTL == 2

(* the clock of the cache machine stops at MaxCacheTime *)
MaxCacheTime == 4

(* the values the row of g5_config takes *)
ConfigRows == {1, 2}

(* line 110 *)
cacheFresh_inclusive(keys, timestamp, t) ==
    keys # Null /\ t - timestamp <= CACHE_TTL

cacheFresh(keys, timestamp, t) ==
    keys # Null /\ t - timestamp < CACHE_TTL

(* lines 126-144: the keys built from a row; loadedAt is history *)
OAuthKeys(row, loadedAt) == [row |-> row, loadedAt |-> loadedAt]

(* what a call that has ended leaves in last: ret is Null when it threw *)
KeysCall(start, queried, ret) ==
    [op |-> "getOAuthKeys", start |-> start, queried |-> queried,
     ret |-> ret,
     pre |-> [cachedKeys |-> cachedKeys, cacheTimestamp |-> cacheTimestamp]]

(* the requests that call getOAuthKeys at the same time *)
KeyCallers == {"a", "b"}

(* an administrator changes the row of g5_config, or the table is empty *)
ConfigChanges(row) ==
    /\ row # config
    /\ config' = row
    /\ UNCHANGED <<now, tokenVars, sessionVars, oauthVars, webVars, raceVars,
                   cachedKeys, cacheTimestamp, last, prev>>

(* lines 108-112: the call returns the cache, or goes on to the query *)
BeginGetOAuthKeys(id) ==
    /\ \A c \in calls : c.id # id
    /\ IF cacheFresh(cachedKeys, cacheTimestamp, now)
       THEN /\ last' = KeysCall(now, FALSE, cachedKeys)
            /\ UNCHANGED calls
       ELSE /\ calls' = calls \cup
                  {[id |-> id, op |-> "getOAuthKeys",
                    pc |-> "query", now |-> now, rows |-> Null,
                    loadedAt |-> now]}
            /\ UNCHANGED last
    /\ UNCHANGED <<cacheVars, now, tokenVars, sessionVars, oauthVars, webVars,
                   reuseDetected, prev>>

(* lines 114-120: SELECT ... FROM g5_config LIMIT 1 *)
QueryStatement(c) ==
    /\ c.op = "getOAuthKeys" /\ c.pc = "query"
    /\ calls' = Replace(c, [c EXCEPT !.pc = "assign", !.rows = config,
                                     !.loadedAt = now])
    /\ UNCHANGED <<cacheVars, now, tokenVars, sessionVars, oauthVars, webVars,
                   reuseDetected, last, prev>>

(* the query rejects: the call throws at line 114 *)
QueryFails(c) ==
    /\ c.op = "getOAuthKeys" /\ c.pc = "query"
    /\ calls' = calls \ {c}
    /\ last' = KeysCall(c.now, TRUE, Null)
    /\ UNCHANGED <<cacheVars, now, tokenVars, sessionVars, oauthVars, webVars,
                   reuseDetected, prev>>

(* lines 122-147: no row: the call throws; else the cache and its timestamp
   are assigned and the new cache is returned *)
AssignStatement(c) ==
    /\ c.op = "getOAuthKeys" /\ c.pc = "assign"
    /\ calls' = calls \ {c}
    /\ IF c.rows = Null
       THEN /\ last' = KeysCall(c.now, TRUE, Null)
            /\ UNCHANGED <<cachedKeys, cacheTimestamp>>
       ELSE /\ cachedKeys' = Some(OAuthKeys(Val(c.rows), c.loadedAt))
            /\ cacheTimestamp' = c.now
            /\ last' = KeysCall(c.now, TRUE, cachedKeys')
    /\ UNCHANGED <<now, tokenVars, sessionVars, oauthVars, webVars,
                   reuseDetected, config, prev>>

NextCache ==
    \/ Tick(MaxCacheTime)
    \/ \E row \in {Null} \cup {Some(v) : v \in ConfigRows} :
          ConfigChanges(row)
    \/ \E id \in KeyCallers : BeginGetOAuthKeys(id)
    \/ \E c \in calls : QueryStatement(c)
    \/ \E c \in calls : QueryFails(c)
    \/ \E c \in calls : AssignStatement(c)

SpecCache == InitTokens /\ [][NextCache]_vars

---------------------------------------------------------------------------
(* Claims about the cache of the OAuth keys *)

(* C40: getOAuthKeys returns no keys that were loaded from g5_config
   CACHE_TTL or more before the call. A call that finds a cache younger
   than CACHE_TTL returns it without a query and leaves it as it is; a call
   that finds an older cache or none replaces the keys and the timestamp
   together by what its query has loaded; a call whose load fails throws
   and leaves the cache and its timestamp as they were. *)
C40_CachedKeysNeverStale ==
    /\ cachedKeys # Null => Val(cachedKeys).loadedAt >= cacheTimestamp
    /\ last.op = "getOAuthKeys" =>
        /\ last.ret # Null =>
              last.start - Val(last.ret).loadedAt < CACHE_TTL
        /\ ~last.queried =>
              /\ last.ret # Null /\ last.ret = last.pre.cachedKeys
              /\ cachedKeys = last.pre.cachedKeys
              /\ cacheTimestamp = last.pre.cacheTimestamp
        /\ (last.queried /\ last.ret # Null) =>
              /\ Val(last.ret).loadedAt >= last.start
              /\ cachedKeys = last.ret
              /\ cacheTimestamp = last.start
        /\ (last.queried /\ last.ret = Null) =>
              /\ cachedKeys = last.pre.cachedKeys
              /\ cacheTimestamp = last.pre.cacheTimestamp

(* C40 witness: the keys of the changed row, loaded after the first cache
   had grown old, are returned from the cache one instant short of the TTL *)
C40_Witness ==
    /\ last.op = "getOAuthKeys" /\ ~last.queried
    /\ last.ret = Some(OAuthKeys(2, CACHE_TTL + 1))
    /\ last.start = 2 * CACHE_TTL

(* a load that fails leaves the cache that has grown old *)
C40_WitnessFailedLoad ==
    /\ last.op = "getOAuthKeys" /\ last.queried /\ last.ret = Null
    /\ cachedKeys # Null
    /\ last.start - cacheTimestamp >= CACHE_TTL

====
